---- MODULE Spec2Model ----
(***************************************************************************)
(* State-machine model of the data-fetch orchestration and caching layer   *)
(* of the Plane Discord bot: the concurrency limiter and the retrying      *)
(* request executor (services/planeApi/apiRequest.js and planeApiDirect.js)*)
(* the generic CacheManager (services/planeApi/cacheManager.js) and the    *)
(* session-aware cached accessors of planeApiDirect.js.                    *)
(*                                                                         *)
(* Each component has its own specification over the shared variable       *)
(* tuple; the variables of the other components stay at their initial      *)
(* values.                                                                 *)
(***************************************************************************)
EXTENDS Integers, Sequences, FiniteSets, TLC

\* ------------------------------------------------------------------------
\* Bounds of the model (not program constants)
\* ------------------------------------------------------------------------
NumTasks == 5          \* tasks submitted to one ConcurrencyLimiter
MaxRetryAfter == 11    \* largest retry-after hint (seconds) the upstream sends
MaxCalls == 3          \* calls made to the cached accessors
ClockStep == 150000    \* ms between two readings of the clock that differ
MaxTime == 4           \* number of different readings of the clock
MaxSessions == 2       \* startProjectSession calls in one behaviour
MaxLookups == 3        \* fetchUserName calls in one session
MaxExtra == 1          \* records the upstream returns beyond MAX_ACTIVITIES_PER_ITEM

\* ------------------------------------------------------------------------
\* Program constants
\* ------------------------------------------------------------------------
MAX_RETRIES == 3
INITIAL_RETRY_DELAY_MS_MODULAR == 1000
INITIAL_RETRY_DELAY_MS_DIRECT == 20000
MAX_CONCURRENT_ACTIVITY_FETCHES == 5
MAX_CONCURRENT_PROJECT_FETCHES == 3
\* cache lifetimes, in ms
ACTIVITIES_CACHE_TTL_MS == 5 * 60 * 1000
WORK_ITEMS_CACHE_TTL_MS == 5 * 60 * 1000
CACHE_TTL_ACTIVITIES == 5 * 60 * 1000
CACHE_TTL_WORK_ITEMS == 5 * 60 * 1000

VARIABLES
  \* ConcurrencyLimiter
  maxConcurrent,   \* this.maxConcurrent
  running,         \* this.running
  queue,           \* this.queue: resolvers of the waiting run() calls, by task
  lpc,             \* position of each run(fn) call
  arrivals,        \* history: the tasks in the order in which they called run
  \* apiRequestWithRetry
  rImpl,           \* which of the two copies of the function is executing
  rPc,             \* position inside apiRequestWithRetry
  attempt,         \* loop variable attempt
  answers,         \* the statuses requestFn has answered so far, in order
  lastError,       \* lastError
  delayMs,         \* delayMs of the current catch block
  sleeps,          \* the delays slept so far, in order
  rResult,         \* what apiRequestWithRetry returned or threw
  \* caches
  cImpl,           \* "manager": CacheManager instances; "direct": planeApiDirect.js
  now,             \* Date.now()
  currentSessionId,\* currentSessionId (planeApiDirect.js)
  sessionStartTime,\* sessionStartTime (planeApiDirect.js)
  cache,           \* per resource type, the Map key -> entry
  pendingRequests, \* the Map(s) <<resource, key>> -> promise of the fetch in flight
  inflight,        \* the request promises not settled yet, by number
  fetchCount,      \* history: number of upstream fetches issued so far
  callsMade,       \* history: number of calls made to the accessors
  lastCall,        \* history: the latest call and what it was answered
  sessionsStarted, \* history: number of startProjectSession calls so far
  disturbed,       \* history: the pairs whose tracker was dropped by a clear
  failed,          \* history: pair -> the fetch of it that failed, for the pairs
                   \* whose accessor has not been called since that failure
  clearedFetches,  \* history: the fetches in flight whose tracker a clear dropped
  fetched,         \* history, per pair: "no" fetch was issued in the current
                   \* session; or the latest is "fresh"; or it went "stale"
                   \* (it failed, was cleared, or its entry outlived the TTL)
  \* getTeamActivities
  tImpl,           \* "modular": teamActivities.js; "direct": planeApiDirect.js
  actorFilter,     \* the actorFilter argument
  pStage,          \* per project, how far its processing has come
  taskStage,       \* per work item: "none" (no task), "ready", "done"
  assignees,       \* per work item, task.assignees
  activities,      \* per work item, the records its task has pushed, in order
  quiet,           \* history, per work item: its three fetches succeeded and
                   \* returned no record inside the window
  fetchFailed,     \* history, per work item: one of its fetches failed upstream
  fetchesIssued,   \* history, per work item: a per-item fetch was issued
  runResult,       \* how the getTeamActivities call ended
  listed,          \* history: per work item, how the listing presented it
  \* state classification
  sState,          \* the state name handed to the classifiers
  sClass,          \* what classifyWorkItemState(state) returned
  sCategory,       \* the list categorizeWorkItems pushed the item to
  sBucket,         \* the list the second loop of processActivities pushed it to
  \* activity classifier
  aImpl,           \* which copy of the classifier runs
  workItemStates,  \* Map: work item id -> latest state seen and its time
  completed,       \* ids pushed to the completed list
  inProgress,      \* ids pushed to the inProgress list
  todo,            \* ids pushed to the todo list
  blockers,        \* ids pushed to the blockers list (getPersonDailySummary)
  returned,        \* the classifier has returned its lists
  stamped,         \* history: the timestamps of the records consumed
  newest,          \* history: per work item, its record with the greatest timestamp,
                   \* the one processed last if several carry it
  tied,            \* history: the records whose timestamp another record already had
  tiesLeft,        \* how many more records may carry a timestamp already seen
  \* namesMatch
  nName1,          \* the first name handed to namesMatch
  nName2,          \* the second name
  nMatch,          \* what namesMatch returned
  \* paginated fetchers
  pgImpl,          \* which copy of the fetchers runs
  fetcher,         \* the fetcher that was called
  upstream,        \* the list the upstream serves, page by page
  cursor,          \* cursor (NoCursor for null)
  hasMore,         \* hasMore
  iteration,       \* iteration
  gathered,        \* per page requested, the number of its items pushed
  requests,        \* page requests sent
  requestFailed,   \* history: a page request threw
  pgResult,        \* "none" while running, then "returned" or "threw"
  \* summary command handlers
  command,         \* interaction.data.name
  requiredOption,  \* the project (team) or person option
  dateInput,       \* the date option
  discord,         \* how Discord answers a follow-up request
  hPc,             \* where the invocation stands
  acked,           \* the deferred acknowledgment was returned
  message,         \* the message chosen for the follow-up
  followUps,       \* sendFollowUp calls made
  delivered,       \* follow-up messages Discord accepted
  hReturned,       \* what the handler returned
  \* one call of a resource fetcher
  fImpl,           \* which copy of the fetchers runs
  fName,           \* the fetcher called
  PLANE_API,       \* "null" before initPlaneService(config), then the "client"
  fPc,             \* where the call stands
  outerAttempt,    \* attempt of the apiRequestWithRetry the fetcher calls
  innerAttempt,    \* attempt of the apiRequestWithRetry apiGet calls
  upstreamAnswers, \* the statuses the upstream has answered, in order
  fResult,         \* what the fetcher answered
  stored,          \* what the accessor wrote to its cache for the key
  \* user names
  uImpl,           \* which copy of fetchUserName runs
  usersCache,      \* the ids usersCache holds a name for
  allUsersLoaded,  \* allUsersLoaded (planeApiDirect.js)
  uPc,             \* position of each fetchUserName call
  uId,             \* the userId of each call
  uName,           \* what each call returned
  memberRequests,  \* history: members-list requests sent upstream
  \* the record loops of one task
  colImpl,         \* which copy of the loops runs
  colType,         \* the kind of records the loop goes through
  colFilter,       \* actorFilter
  upstreamList,    \* the list the upstream returned for the work item
  examinedCount,   \* the records the loop has gone through
  pushed,          \* the positions in upstreamList of the records pushed, in order
  colDone          \* the loop is over

limiterVars == <<maxConcurrent, running, queue, lpc, arrivals>>
retryVars == <<rImpl, rPc, attempt, answers, lastError, delayMs, sleeps, rResult>>
cacheVars == <<cImpl, now, currentSessionId, sessionStartTime, cache, pendingRequests,
               inflight, fetchCount, callsMade, lastCall, sessionsStarted,
               disturbed, failed, clearedFetches, fetched>>
teamVars == <<tImpl, actorFilter, pStage, taskStage, assignees, activities, quiet,
              fetchFailed, fetchesIssued, runResult, listed>>
stateVars == <<sState, sClass, sCategory, sBucket>>
classifierVars == <<aImpl, workItemStates, completed, inProgress, todo, blockers, returned,
                    stamped, newest, tied, tiesLeft>>
namesVars == <<nName1, nName2, nMatch>>
pagesVars == <<pgImpl, fetcher, upstream, cursor, hasMore, iteration, gathered, requests,
               requestFailed, pgResult>>
handlerVars == <<command, requiredOption, dateInput, discord, hPc, acked, message, followUps,
                 delivered, hReturned>>
fetcherVars == <<fImpl, fName, PLANE_API, fPc, outerAttempt, innerAttempt, upstreamAnswers,
                 fResult, stored>>
usersVars == <<uImpl, usersCache, allUsersLoaded, uPc, uId, uName, memberRequests>>
collectorVars == <<colImpl, colType, colFilter, upstreamList, examinedCount, pushed, colDone>>
vars == <<limiterVars, retryVars, cacheVars, teamVars, stateVars, classifierVars, namesVars,
          pagesVars, handlerVars, fetcherVars, usersVars, collectorVars>>

\* what the actions of one component leave alone
besidesLimiter == <<retryVars, cacheVars, teamVars, stateVars, classifierVars, namesVars,
                    pagesVars, handlerVars, fetcherVars, usersVars, collectorVars>>
besidesRetry == <<limiterVars, cacheVars, teamVars, stateVars, classifierVars, namesVars,
                  pagesVars, handlerVars, fetcherVars, usersVars, collectorVars>>
besidesCache == <<limiterVars, retryVars, teamVars, stateVars, classifierVars, namesVars,
                  pagesVars, handlerVars, fetcherVars, usersVars, collectorVars>>
besidesTeam == <<limiterVars, retryVars, cacheVars, stateVars, classifierVars, namesVars,
                 pagesVars, handlerVars, fetcherVars, usersVars, collectorVars>>
besidesState == <<limiterVars, retryVars, cacheVars, teamVars, classifierVars, namesVars,
                  pagesVars, handlerVars, fetcherVars, usersVars, collectorVars>>
besidesClassifier == <<limiterVars, retryVars, cacheVars, teamVars, stateVars, namesVars,
                       pagesVars, handlerVars, fetcherVars, usersVars, collectorVars>>
besidesNames == <<limiterVars, retryVars, cacheVars, teamVars, stateVars, classifierVars,
                  pagesVars, handlerVars, fetcherVars, usersVars, collectorVars>>
besidesPages == <<limiterVars, retryVars, cacheVars, teamVars, stateVars, classifierVars,
                  namesVars, handlerVars, fetcherVars, usersVars, collectorVars>>
besidesHandler == <<limiterVars, retryVars, cacheVars, teamVars, stateVars, classifierVars,
                    namesVars, pagesVars, fetcherVars, usersVars, collectorVars>>
besidesFetcher == <<limiterVars, retryVars, cacheVars, teamVars, stateVars, classifierVars,
                    namesVars, pagesVars, handlerVars, usersVars, collectorVars>>
besidesUsers == <<limiterVars, retryVars, cacheVars, teamVars, stateVars, classifierVars,
                  namesVars, pagesVars, handlerVars, fetcherVars, collectorVars>>
besidesCollector == <<limiterVars, retryVars, cacheVars, teamVars, stateVars, classifierVars,
                      namesVars, pagesVars, handlerVars, fetcherVars, usersVars>>

Max(a, b) == IF a >= b THEN a ELSE b

RECURSIVE Pow2(_)
Pow2(n) == IF n = 0 THEN 1 ELSE 2 * Pow2(n - 1)

\* ========================================================================
\* ConcurrencyLimiter
\* ========================================================================
Tasks == 1..NumTasks

\* The condition of the while loop of run(), evaluated on entry and again
\* each time the awaited resolver has been called.
MustWait_if(pcv, r, m) == pcv = "idle" /\ r >= m
MustWait(pcv, r, m) == r >= m

LimiterInit ==
  /\ maxConcurrent \in {MAX_CONCURRENT_PROJECT_FETCHES, MAX_CONCURRENT_ACTIVITY_FETCHES}
  /\ running = 0
  /\ queue = <<>>
  /\ lpc = [t \in Tasks |-> "idle"]
  /\ arrivals = <<>>

\* run(fn) up to its first suspension: either it parks a resolver in the
\* queue, or it takes a slot and starts fn.
RunEnter(t) ==
  /\ lpc[t] \in {"idle", "woken"}
  /\ IF MustWait(lpc[t], running, maxConcurrent)
       THEN /\ queue' = Append(queue, t)
            /\ lpc' = [lpc EXCEPT ![t] = "waiting"]
            /\ UNCHANGED running
       ELSE /\ running' = running + 1
            /\ lpc' = [lpc EXCEPT ![t] = "running"]
            /\ UNCHANGED queue
  /\ arrivals' = IF lpc[t] = "idle" THEN Append(arrivals, t) ELSE arrivals
  /\ UNCHANGED <<maxConcurrent, besidesLimiter>>

\* fn settles (returns or throws); the finally block frees the slot and
\* resolves the first queued waiter, whose loop resumes in a later microtask.
RunSettle_noWake(t, outcome) ==
  /\ lpc[t] = "running"
  /\ running' = running - 1
  /\ lpc' = [lpc EXCEPT ![t] = outcome]
  /\ UNCHANGED <<queue, maxConcurrent, arrivals, besidesLimiter>>
RunSettle(t, outcome) ==
  /\ lpc[t] = "running"
  /\ running' = running - 1
  /\ IF queue # <<>>
       THEN /\ lpc' = [lpc EXCEPT ![t] = outcome, ![Head(queue)] = "woken"]
            /\ queue' = Tail(queue)
       ELSE /\ lpc' = [lpc EXCEPT ![t] = outcome]
            /\ UNCHANGED queue
  /\ UNCHANGED <<maxConcurrent, arrivals, besidesLimiter>>

\* run(fn) called by the tasks one after the other
RunEnterInOrder(t) ==
  /\ lpc[t] = "idle" => \A u \in 1..(t - 1) : lpc[u] # "idle"
  /\ RunEnter(t)

RunReturn(t) == RunSettle(t, "returned")
RunThrow(t) == RunSettle(t, "threw")

\* ========================================================================
\* apiRequestWithRetry
\* ========================================================================
NoHint == -1
Statuses == {200, 429, 403, 404, 500, 0}   \* 0: no response (network error)

\* The decimal text of a retry-after value, as a sequence of digits, and
\* JavaScript's parseInt on such a text.
RECURSIVE FormatSeconds(_)
FormatSeconds(s) == IF s < 10 THEN <<s>> ELSE Append(FormatSeconds(s \div 10), s % 10)

RECURSIVE parseInt(_)
parseInt(str) ==
  IF Len(str) = 1 THEN str[1]
  ELSE 10 * parseInt(SubSeq(str, 1, Len(str) - 1)) + str[Len(str)]

\* What the upstream can answer to one request: a status and, on 429,
\* optionally a retry-after header.  secs is the number of seconds the
\* upstream meant (NoHint when it sent no header).
Responses ==
  [status : Statuses \ {429}, retryAfter : {<<>>}, secs : {NoHint}]
    \cup [status : {429}, retryAfter : {<<>>}, secs : {NoHint}]
    \cup {[status |-> 429, retryAfter |-> FormatSeconds(s), secs |-> s] : s \in 0..MaxRetryAfter}

NoError == [status |-> 200, retryAfter |-> <<>>, secs |-> NoHint, id |-> 0]

INITIAL_RETRY_DELAY_MS(impl) ==
  IF impl = "modular" THEN INITIAL_RETRY_DELAY_MS_MODULAR ELSE INITIAL_RETRY_DELAY_MS_DIRECT

\* error.response?.status === 429
IsRateLimited_any4xx(error) == error.status >= 400 /\ error.status < 500
IsRateLimited(error) == error.status = 429

\* the condition of the for loop
LoopContinues_inclusive(a) == a <= MAX_RETRIES
LoopContinues(a) == a < MAX_RETRIES

\* retryAfter ? parseInt(retryAfter) * 1000 : INITIAL_RETRY_DELAY_MS * 2^attempt
BaseDelay_noHeader(impl, retryAfter, a) == INITIAL_RETRY_DELAY_MS(impl) * Pow2(a)
BaseDelay(impl, retryAfter, a) ==
  IF Len(retryAfter) > 0
    THEN parseInt(retryAfter) * 1000
    ELSE INITIAL_RETRY_DELAY_MS(impl) * Pow2(a)

\* delayMs: the modular copy sleeps the base delay, the copy in
\* planeApiDirect.js raises it to 3000 + attempt * 2000.
RetryDelay(impl, retryAfter, a) ==
  IF impl = "modular"
    THEN BaseDelay(impl, retryAfter, a)
    ELSE Max(BaseDelay(impl, retryAfter, a), 3000 + a * 2000)

\* number of requestFn invocations so far
calls == Len(answers)

RetryInit ==
  /\ rImpl \in {"modular", "direct"}
  /\ rPc = "call"
  /\ attempt = 0
  /\ answers = <<>>
  /\ lastError = NoError
  /\ delayMs = 0
  /\ sleeps = <<>>
  /\ rResult = [kind |-> "pending", id |-> 0, status |-> 0]

\* await requestFn() answers 2xx: return result
RequestSucceeds ==
  /\ rPc = "call"
  /\ answers' = Append(answers, 200)
  /\ rResult' = [kind |-> "returned", id |-> calls + 1, status |-> 200]
  /\ rPc' = "done"
  /\ UNCHANGED <<rImpl, attempt, lastError, delayMs, sleeps, besidesRetry>>

\* await requestFn() throws: the catch block
RequestFails(resp) ==
  /\ rPc = "call"
  /\ resp.status # 200
  /\ answers' = Append(answers, resp.status)
  /\ LET error == [status |-> resp.status, retryAfter |-> resp.retryAfter,
                   secs |-> resp.secs, id |-> calls + 1]
     IN /\ lastError' = error
        /\ IF IsRateLimited(error)
             THEN /\ delayMs' = RetryDelay(rImpl, error.retryAfter, attempt)
                  /\ rPc' = "sleep"
                  /\ UNCHANGED rResult
             ELSE /\ rResult' = [kind |-> "threw", id |-> error.id, status |-> error.status]
                  /\ rPc' = "done"
                  /\ UNCHANGED delayMs
  /\ UNCHANGED <<rImpl, attempt, sleeps, besidesRetry>>

\* await sleep(delayMs) is over: attempt++, then the loop test; leaving the
\* loop throws lastError.
SleepDone ==
  /\ rPc = "sleep"
  /\ sleeps' = Append(sleeps, delayMs)
  /\ attempt' = attempt + 1
  /\ IF LoopContinues(attempt + 1)
       THEN rPc' = "call" /\ UNCHANGED rResult
       ELSE /\ rPc' = "done"
            /\ rResult' = [kind |-> "threw", id |-> lastError.id, status |-> lastError.status]
  /\ UNCHANGED <<rImpl, answers, lastError, delayMs, besidesRetry>>

\* ========================================================================
\* Caches: the CacheManager instances of cacheManager.js ("manager") and the
\* session-aware cached accessors of planeApiDirect.js ("direct")
\* ========================================================================
Resources == {"activities", "workItems"}
Keys == {"k1"}        \* one work item (activities) or project (work items)
Projects == {"p1", "p2"}
NoSession == <<>>     \* null
EmptyMap == <<>>      \* new Map()

MapSet(m, k, v) == [x \in (DOMAIN m) \cup {k} |-> IF x = k THEN v ELSE m[x]]
MapDelete(m, k) == [x \in (DOMAIN m) \ {k} |-> m[x]]

\* the lifetime of the entries of one cache
Ttl(impl, r) ==
  IF impl = "manager"
    THEN (IF r = "activities" THEN CACHE_TTL_ACTIVITIES ELSE CACHE_TTL_WORK_ITEMS)
    ELSE (IF r = "activities" THEN ACTIVITIES_CACHE_TTL_MS ELSE WORK_ITEMS_CACHE_TTL_MS)

\* timestamp && Date.now() - timestamp < ttl
isCacheValid_never(timestamp, t, ttl) == FALSE
isCacheValid(timestamp, t, ttl) == timestamp # 0 /\ t - timestamp < ttl

\* currentSessionId && cacheEntry.sessionId === currentSessionId
isInCurrentSession(cacheEntry, sid) == sid # NoSession /\ cacheEntry.sessionId = sid

\* `${projectId}_${Date.now()}`
SessionId(projectId, t) == <<projectId, t>>

\* pendingRequests.has(key)
HasPending_never(pending, pk) == FALSE
HasPending(pending, pk) == pk \in DOMAIN pending

\* the test that lets an accessor answer from its cache
EntryValid(impl, r, k) ==
  /\ k \in DOMAIN cache[r]
  /\ impl = "direct" => isInCurrentSession(cache[r][k], currentSessionId)
  /\ isCacheValid(cache[r][k].timestamp, now, Ttl(impl, r))

\* CacheManager.get deletes an entry it finds expired; the accessors of
\* planeApiDirect.js leave it in the Map.
AfterRead(impl, r, k) ==
  IF /\ impl = "manager"
     /\ k \in DOMAIN cache[r]
     /\ ~isCacheValid(cache[r][k].timestamp, now, Ttl(impl, r))
    THEN [cache EXCEPT ![r] = MapDelete(@, k)]
    ELSE cache

\* fetchWorkItems lets upstream errors through; fetchWorkItemActivities
\* catches them and answers [].  (getWorkItemsWithCache is never called
\* with forceRefresh.)
CanReject(r) == r = "workItems"

Pairs == Resources \X Keys

\* The value an upstream fetch returns is modelled by the fetch itself: the
\* number of its request promise and (history) the number of sessions that
\* had been started when it was issued.
Value(n, s) == [id |-> n, session |-> s]

NoCall == [op |-> "none", res |-> "activities", key |-> "k1", via |-> "none",
           promise |-> 0, data |-> Value(0, 0), session |-> 0]

CacheInit ==
  /\ cImpl \in {"manager", "direct"}
  /\ now = ClockStep
  /\ currentSessionId = NoSession
  /\ sessionStartTime = 0
  /\ cache = [r \in Resources |-> EmptyMap]
  /\ pendingRequests = EmptyMap
  /\ inflight = EmptyMap
  /\ fetchCount = 0
  /\ callsMade = 0
  /\ lastCall = NoCall
  /\ sessionsStarted = 0
  /\ disturbed = {}
  /\ failed = EmptyMap
  /\ clearedFetches = {}
  /\ fetched = [pk \in Pairs |-> "no"]

\* history: the entries that a step of the clock to t carries past their TTL
ExpiredAt(t) ==
  {pk \in Pairs : /\ pk[2] \in DOMAIN cache[pk[1]]
                  /\ t - cache[pk[1]][pk[2]].timestamp >= Ttl(cImpl, pk[1])}

\* history: fetched[pk] of the pairs in the set S falls from "fresh" to "stale"
Stale(S) == [pk \in Pairs |-> IF pk \in S /\ fetched[pk] = "fresh" THEN "stale" ELSE fetched[pk]]

\* time passes
Tick ==
  /\ now < MaxTime * ClockStep
  /\ now' = now + ClockStep
  /\ fetched' = Stale(ExpiredAt(now + ClockStep))
  /\ UNCHANGED <<cImpl, currentSessionId, sessionStartTime, cache, pendingRequests,
                 inflight, fetchCount, callsMade, lastCall, sessionsStarted, disturbed, failed, clearedFetches,
                 besidesCache>>

\* startProjectSession(projectId); the projects being interchangeable, the
\* first session is started for "p1"
startProjectSession(projectId) ==
  /\ cImpl = "direct"
  /\ sessionsStarted < MaxSessions
  /\ sessionsStarted = 0 => projectId = "p1"
  /\ currentSessionId' = SessionId(projectId, now)
  /\ sessionStartTime' = now
  /\ sessionsStarted' = sessionsStarted + 1
  /\ fetched' = [pk \in Pairs |-> "no"]
  /\ UNCHANGED <<cImpl, now, cache, pendingRequests, inflight, fetchCount, callsMade,
                 lastCall, disturbed, failed, clearedFetches, besidesCache>>

\* getOrFetch(key, fetchFn) of one CacheManager, and getActivitiesWithCache /
\* getWorkItemsWithCache of planeApiDirect.js, up to the first suspension:
\* answer from the cache, or hand out the promise of the fetch in flight,
\* or issue a fetch and hand out its promise.
GetWithCache(r, k) ==
  /\ callsMade < MaxCalls
  /\ callsMade' = callsMade + 1
  /\ cache' = AfterRead(cImpl, r, k)
  /\ IF EntryValid(cImpl, r, k)
       THEN /\ lastCall' = [op |-> "getWithCache", res |-> r, key |-> k, via |-> "hit",
                            promise |-> 0, data |-> cache[r][k].data,
                            session |-> sessionsStarted]
            /\ UNCHANGED <<pendingRequests, inflight, fetchCount, fetched>>
       ELSE IF HasPending(pendingRequests, <<r, k>>)
         THEN /\ lastCall' = [op |-> "getWithCache", res |-> r, key |-> k, via |-> "join",
                              promise |-> pendingRequests[<<r, k>>],
                              data |-> inflight[pendingRequests[<<r, k>>]].data,
                              session |-> sessionsStarted]
              /\ UNCHANGED <<pendingRequests, inflight, fetchCount, fetched>>
         ELSE /\ fetchCount' = fetchCount + 1
              /\ inflight' = MapSet(inflight, fetchCount + 1,
                   [res |-> r, key |-> k, data |-> Value(fetchCount + 1, sessionsStarted)])
              /\ pendingRequests' = MapSet(pendingRequests, <<r, k>>, fetchCount + 1)
              /\ lastCall' = [op |-> "getWithCache", res |-> r, key |-> k, via |-> "fetch",
                              promise |-> fetchCount + 1,
                              data |-> Value(fetchCount + 1, sessionsStarted),
                              session |-> sessionsStarted]
              /\ fetched' = [fetched EXCEPT ![<<r, k>>] = "fresh"]
  /\ failed' = MapDelete(failed, <<r, k>>)
  /\ UNCHANGED <<cImpl, now, currentSessionId, sessionStartTime, sessionsStarted,
                 disturbed, clearedFetches, besidesCache>>

\* finally { pendingRequests.delete(key) }
DeleteTracker_keep(pending, pk) == pending
DeleteTracker(pending, pk) == MapDelete(pending, pk)

\* sessionId: currentSessionId, read when the entry is written
StampOnWrite_none(impl, sid) == NoSession
StampOnWrite(impl, sid) == IF impl = "direct" THEN sid ELSE NoSession

\* the fetch of request promise n succeeds: the entry is written (stamped
\* with the session current now) and the finally block deletes the tracker
\* of the key; every caller that was handed promise n receives the value.
FetchResolves(n) ==
  /\ n \in DOMAIN inflight
  /\ LET r == inflight[n].res
         k == inflight[n].key
     IN /\ cache' = [cache EXCEPT ![r] = MapSet(@, k,
                       [data |-> inflight[n].data, timestamp |-> now,
                        sessionId |-> StampOnWrite(cImpl, currentSessionId),
                        epoch |-> sessionsStarted])]
        /\ pendingRequests' = DeleteTracker(pendingRequests, <<r, k>>)
  /\ inflight' = MapDelete(inflight, n)
  /\ clearedFetches' = clearedFetches \ {n}
  /\ UNCHANGED <<cImpl, now, currentSessionId, sessionStartTime, fetchCount, callsMade,
                 lastCall, sessionsStarted, disturbed, failed, fetched, besidesCache>>

\* the fetch of request promise n fails: nothing is written, the finally
\* block deletes the tracker of the key, and every caller that was handed
\* promise n receives the error.
FetchRejects(n) ==
  /\ n \in DOMAIN inflight
  /\ CanReject(inflight[n].res)
  /\ pendingRequests' = DeleteTracker(pendingRequests, <<inflight[n].res, inflight[n].key>>)
  /\ inflight' = MapDelete(inflight, n)
  /\ fetched' = Stale({<<inflight[n].res, inflight[n].key>>})
  /\ failed' = MapSet(failed, <<inflight[n].res, inflight[n].key>>, n)
  /\ clearedFetches' = clearedFetches \ {n}
  /\ UNCHANGED <<cImpl, now, currentSessionId, sessionStartTime, cache, fetchCount,
                 callsMade, lastCall, sessionsStarted, disturbed, besidesCache>>

\* CacheManager.get(key)
CacheGet(r, k) ==
  /\ cImpl = "manager"
  /\ callsMade < MaxCalls
  /\ callsMade' = callsMade + 1
  /\ cache' = AfterRead(cImpl, r, k)
  /\ lastCall' = [op |-> "get", res |-> r, key |-> k,
                  via |-> IF EntryValid(cImpl, r, k) THEN "hit" ELSE "miss",
                  promise |-> 0,
                  data |-> IF EntryValid(cImpl, r, k) THEN cache[r][k].data ELSE Value(0, 0),
                  session |-> sessionsStarted]
  /\ UNCHANGED <<cImpl, now, currentSessionId, sessionStartTime, pendingRequests,
                 inflight, fetchCount, sessionsStarted, disturbed, failed,
                 clearedFetches, fetched, besidesCache>>

\* CacheManager.set(key, data), called from outside getOrFetch; the value
\* set is modelled as Value(0, .)
CacheSet(r, k) ==
  /\ cImpl = "manager"
  /\ callsMade < MaxCalls
  /\ callsMade' = callsMade + 1
  /\ cache' = [cache EXCEPT ![r] = MapSet(@, k,
                 [data |-> Value(0, sessionsStarted), timestamp |-> now,
                  sessionId |-> NoSession, epoch |-> sessionsStarted])]
  /\ lastCall' = [op |-> "set", res |-> r, key |-> k, via |-> "set",
                  promise |-> 0, data |-> Value(0, sessionsStarted),
                  session |-> sessionsStarted]
  /\ UNCHANGED <<cImpl, now, currentSessionId, sessionStartTime, pendingRequests,
                 inflight, fetchCount, sessionsStarted, disturbed, failed,
                 clearedFetches, fetched, besidesCache>>

\* the trackers clearActivityCaches() drops: those of the activity caches in
\* cacheManager.js, every tracker of the shared Map in planeApiDirect.js
DroppedByClearActivity(impl, pk) == impl = "direct" \/ pk[1] = "activities"

\* clearActivityCaches()
clearActivityCaches ==
  /\ cache' = [cache EXCEPT !["activities"] = EmptyMap]
  /\ pendingRequests' =
       [pk \in {q \in DOMAIN pendingRequests : ~DroppedByClearActivity(cImpl, q)}
          |-> pendingRequests[pk]]
  /\ disturbed' = disturbed \cup
       {pk \in DOMAIN pendingRequests : DroppedByClearActivity(cImpl, pk)}
  /\ fetched' = Stale({pk \in Pairs : pk[1] = "activities" \/
                                      (pk \in DOMAIN pendingRequests /\
                                       DroppedByClearActivity(cImpl, pk))})
  /\ clearedFetches' = clearedFetches \cup
       {pendingRequests[pk] : pk \in {q \in DOMAIN pendingRequests :
                                        DroppedByClearActivity(cImpl, q)}}
  /\ UNCHANGED <<cImpl, now, currentSessionId, sessionStartTime, inflight, fetchCount,
                 callsMade, lastCall, sessionsStarted, failed, besidesCache>>

\* clearAllCaches() of cacheManager.js: clear() on every instance
clearAllCaches ==
  /\ cImpl = "manager"
  /\ cache' = [r \in Resources |-> EmptyMap]
  /\ pendingRequests' = EmptyMap
  /\ disturbed' = disturbed \cup DOMAIN pendingRequests
  /\ fetched' = Stale(Pairs)
  /\ clearedFetches' = clearedFetches \cup {pendingRequests[pk] : pk \in DOMAIN pendingRequests}
  /\ UNCHANGED <<cImpl, now, currentSessionId, sessionStartTime, inflight, fetchCount,
                 callsMade, lastCall, sessionsStarted, failed, besidesCache>>

\* ========================================================================
\* getTeamActivities
\* ========================================================================
ProjectOrder == <<"p1", "p2">>   \* the projects, in the order of the listing
WorkItems == {"w1", "w2"}
ProjectOf(w) == IF w = "w1" THEN "p1" ELSE "p2"
SubitemOf(w) == IF w = "w1" THEN "w1-sub" ELSE "w2-sub"

\* names are strings over the characters "a", "A", "b", "B" and separators
NoFilter == <<>>                 \* actorFilter = null
NameA == <<"a">>
NameADot == <<"A", ".">>
NameB == <<"b">>
ActorNames == {NameADot, NameB}
Filters == {NoFilter, NameA}
AssigneeSets == {{}, {NameADot}, {NameB}}

toLowerCase(c) ==
  IF \E i \in 1..26 : c = <<"A", "B", "C", "D", "E", "F", "G", "H", "I", "J", "K", "L", "M",
                            "N", "O", "P", "Q", "R", "S", "T", "U", "V", "W", "X", "Y",
                            "Z">>[i]
    THEN <<"a", "b", "c", "d", "e", "f", "g", "h", "i", "j", "k", "l", "m", "n", "o", "p",
           "q", "r", "s", "t", "u", "v", "w", "x", "y", "z">>[
           CHOOSE i \in 1..26 : c = <<"A", "B", "C", "D", "E", "F", "G", "H", "I", "J", "K",
                                      "L", "M", "N", "O", "P", "Q", "R", "S", "T", "U", "V",
                                      "W", "X", "Y", "Z">>[i]]
    ELSE c
Separators == {".", "-", "_", " "}

\* name.toLowerCase().replace(/[.\-_\s]+/g, "")
RECURSIVE normalizeName(_)
normalizeName(name) ==
  IF name = <<>> THEN <<>>
  ELSE IF Head(name) \in Separators THEN normalizeName(Tail(name))
  ELSE <<toLowerCase(Head(name))>> \o normalizeName(Tail(name))

namesMatch_caseOnly(name1, name2) ==
  /\ name1 # <<>>
  /\ name2 # <<>>
  /\ [i \in 1..Len(name1) |-> toLowerCase(name1[i])] =
     [i \in 1..Len(name2) |-> toLowerCase(name2[i])]
namesMatch(name1, name2) ==
  /\ name1 # <<>>
  /\ name2 # <<>>
  /\ normalizeName(name1) = normalizeName(name2)

shouldIncludeActor(filter, actorName) ==
  filter = NoFilter \/ namesMatch(actorName, filter)

isAssignedToActor_always(as, filter) == TRUE
isAssignedToActor(as, filter) ==
  filter = NoFilter \/ \E a \in as : namesMatch(a, filter)

\* What upstream answers to one per-item fetch: an error, a list without a
\* record inside the window, a list with one record inside the window (an
\* activity or comment by the actor, a subitem assigned to the actor), or a
\* list holding an element that is not an object.
Answer(kind, actor) == [kind |-> kind, actor |-> actor]
ListAnswers == {Answer("fail", <<>>), Answer("none", <<>>)} \cup
               {Answer("record", a) : a \in ActorNames}
ActivityAnswers == ListAnswers \cup {Answer("malformed", <<>>)}

Record(type, w, parent, actor) ==
  [type |-> type, workItem |-> w, parentWorkItem |-> parent, actor |-> actor]

\* the fetchers turn an upstream error into []
InRange(ans) == ans.kind = "record"

\* collectWorkItemActivities
activityFound(filter, ans) == InRange(ans) /\ shouldIncludeActor(filter, ans.actor)
activityRecords(filter, w, ans) ==
  IF activityFound(filter, ans) THEN <<Record("activity", w, "", ans.actor)>> ELSE <<>>

\* collectWorkItemComments; planeApiDirect.js sets foundActivityInRange
\* before it applies the actor filter
commentFound_filtered(impl, filter, ans) ==
  InRange(ans) /\ shouldIncludeActor(filter, ans.actor)
commentFound(impl, filter, ans) ==
  InRange(ans) /\ (impl = "direct" \/ shouldIncludeActor(filter, ans.actor))
commentRecords(filter, w, ans) ==
  IF InRange(ans) /\ shouldIncludeActor(filter, ans.actor)
    THEN <<Record("comment", w, "", ans.actor)>> ELSE <<>>

\* collectWorkItemSubitems
subitemRecords(filter, w, ans) ==
  IF InRange(ans) /\ isAssignedToActor({ans.actor}, filter)
    THEN <<Record("subitem", SubitemOf(w), w, <<>>)>> ELSE <<>>

\* createWorkItemSnapshot, pushed if the actor is assigned
snapshotRecords(filter, w, as) ==
  IF isAssignedToActor(as, filter)
    THEN <<Record("work_item_snapshot", w, "", <<>>)>> ELSE <<>>

\* the records one task pushes: the try block, or the catch block when the
\* activity loop throws on the malformed element
TaskRecords(impl, filter, w, as, act, com, sub) ==
  IF act.kind = "malformed"
    THEN snapshotRecords(filter, w, as)
    ELSE activityRecords(filter, w, act) \o commentRecords(filter, w, com) \o
         subitemRecords(filter, w, sub) \o
         (IF ~(activityFound(filter, act) \/ commentFound(impl, filter, com))
            THEN snapshotRecords(filter, w, as) ELSE <<>>)

Pending == [kind |-> "pending", status |-> 200]

\* The reporting window [startDate, endDate] and the (created_at, updated_at)
\* pairs of a listed work item: both before the window, updated on its first
\* instant, created on its last instant, created before and updated after
\* it, both after it.
Window == [startDate |-> 2, endDate |-> 3]
DatePairs == {<<1, 1>>, <<1, 2>>, <<3, 4>>, <<1, 4>>, <<4, 4>>}
\* how a listed work item is tied to the members of the project
MemberLinks == {"none", "assignee", "creator", "updater"}
Unlisted == [seen |-> FALSE, inWindow |-> FALSE, linked |-> FALSE]

\* date >= startDate && date <= endDate
isDateInRange_noEnd(date, startDate, endDate) == date >= startDate
isDateInRange(date, startDate, endDate) == date >= startDate /\ date <= endDate

\* isRelevantToMembers: an assignee, created_by or updated_by is a member
isRelevantToMembers(link) == link \in {"assignee", "creator", "updater"}

\* the pre-filter: processProjectActivities tests the dates and the members,
\* prepareWorkItemTasks tests the dates
PreFilter(impl, created, updated, link) ==
  /\ \/ isDateInRange(created, Window.startDate, Window.endDate)
     \/ isDateInRange(updated, Window.startDate, Window.endDate)
  /\ impl = "direct" => isRelevantToMembers(link)
ProjectErrors == {403, 500, 0}     \* 0: no response

TeamInit ==
  /\ tImpl \in {"modular", "direct"}
  /\ actorFilter \in Filters
  /\ pStage = [p \in Projects |-> "start"]
  /\ taskStage = [w \in WorkItems |-> "none"]
  /\ assignees = [w \in WorkItems |-> {}]
  /\ activities = [w \in WorkItems |-> <<>>]
  /\ quiet = [w \in WorkItems |-> FALSE]
  /\ fetchFailed = [w \in WorkItems |-> FALSE]
  /\ fetchesIssued = [w \in WorkItems |-> FALSE]
  /\ runResult = Pending
  /\ listed = [w \in WorkItems |-> Unlisted]

\* a project-level fetch of project p throws: 403 skips the project, any
\* other error is rethrown and rejects getTeamActivities
ProjectFetchFails_rethrowAll(p, status) ==
  /\ pStage' = [pStage EXCEPT ![p] = "failed"]
  /\ runResult' = IF runResult = Pending
                    THEN [kind |-> "failed", status |-> status]
                    ELSE runResult
ProjectFetchFails(p, status) ==
  IF status = 403
    THEN /\ pStage' = [pStage EXCEPT ![p] = "denied"]
         /\ UNCHANGED runResult
    ELSE /\ pStage' = [pStage EXCEPT ![p] = "failed"]
         /\ runResult' = IF runResult = Pending
                           THEN [kind |-> "failed", status |-> status]
                           ELSE runResult

\* processProjectActivities: getProjectMembers(projectId) answers
GetProjectMembers(p, ans) ==
  /\ tImpl = "direct"
  /\ pStage[p] = "start"
  /\ IF ans.kind = "ok"
       THEN /\ pStage' = [pStage EXCEPT ![p] = IF ans.members = 0 THEN "skipped" ELSE "members"]
            /\ UNCHANGED runResult
       ELSE ProjectFetchFails(p, ans.status)
  /\ UNCHANGED <<tImpl, actorFilter, taskStage, assignees, activities, quiet,
                 fetchFailed, fetchesIssued, listed, besidesTeam>>

\* the loop of getTeamActivities takes the projects one after the other and
\* ends with the first error it rethrows; processProjectActivities runs for
\* the projects side by side
MayListWorkItems(p) ==
  IF tImpl = "direct"
    THEN pStage[p] = "members"
    ELSE /\ pStage[p] = "start"
         /\ runResult = Pending
         /\ \A i \in 1..Len(ProjectOrder) :
              ProjectOrder[i] = p =>
                \A j \in 1..(i - 1) : pStage[ProjectOrder[j]] # "start"

\* getWorkItemsWithCache(projectId) answers; the work items that pass the
\* pre-filter become tasks
GetWorkItems(p, ans) ==
  /\ MayListWorkItems(p)
  /\ IF ans.kind = "ok"
       THEN LET relevant == {w \in ans.items :
                               PreFilter(tImpl, ans.dates[1], ans.dates[2], ans.link)}
            IN /\ pStage' = [pStage EXCEPT ![p] =
                                IF ans.items = {} THEN "skipped" ELSE "listed"]
               /\ taskStage' = [w \in WorkItems |->
                    IF ProjectOf(w) = p /\ w \in relevant THEN "ready" ELSE taskStage[w]]
               /\ assignees' = [w \in WorkItems |->
                    IF ProjectOf(w) = p /\ w \in relevant THEN ans.assignees
                    ELSE assignees[w]]
               /\ listed' = [w \in WorkItems |->
                    IF w \in ans.items
                      THEN [seen |-> TRUE,
                            inWindow |-> \E i \in 1..2 :
                               ans.dates[i] \in Window.startDate..Window.endDate,
                            linked |-> ans.link # "none"]
                      ELSE listed[w]]
               /\ UNCHANGED runResult
       ELSE /\ ProjectFetchFails(p, ans.status)
            /\ UNCHANGED <<taskStage, assignees, listed>>
  /\ UNCHANGED <<tImpl, actorFilter, activities, quiet, fetchFailed, fetchesIssued,
                 besidesTeam>>

\* the tasks of teamActivities.js start after the loop over the projects
MayRunTask(w) ==
  /\ taskStage[w] = "ready"
  /\ tImpl = "modular" =>
       /\ runResult = Pending
       /\ \A p \in Projects : pStage[p] # "start"

\* the task of work item w under the limiter, with what upstream answers to
\* its three fetches
RunTask(w, act, com, sub) ==
  /\ MayRunTask(w)
  /\ act.kind = "malformed" => (com.kind = "none" /\ sub.kind = "none")
  /\ activities' = [activities EXCEPT ![w] =
       @ \o TaskRecords(tImpl, actorFilter, w, assignees[w], act, com, sub)]
  /\ taskStage' = [taskStage EXCEPT ![w] = "done"]
  /\ quiet' = [quiet EXCEPT ![w] =
       act.kind = "none" /\ com.kind = "none" /\ sub.kind = "none"]
  /\ fetchFailed' = [fetchFailed EXCEPT ![w] = "fail" \in {act.kind, com.kind, sub.kind}]
  /\ fetchesIssued' = [fetchesIssued EXCEPT ![w] = TRUE]
  /\ UNCHANGED <<tImpl, actorFilter, pStage, assignees, runResult, listed, besidesTeam>>

\* Promise.all resolves: getTeamActivities returns the records
TeamReturns ==
  /\ runResult = Pending
  /\ \A p \in Projects : pStage[p] \in {"listed", "skipped", "denied"}
  /\ \A w \in WorkItems : taskStage[w] # "ready"
  /\ runResult' = [kind |-> "ok", status |-> 200]
  /\ UNCHANGED <<tImpl, actorFilter, pStage, taskStage, assignees, activities, quiet,
                 fetchFailed, fetchesIssued, listed, besidesTeam>>

MemberAnswers ==
  {[kind |-> "ok", members |-> m, status |-> 200] : m \in {0, 1}} \cup
  {[kind |-> "error", members |-> 0, status |-> s] : s \in ProjectErrors}

\* the listing of the work items of project p: no item, or its item with its
\* dates, its tie to the members and its assignees; or an error
WorkItemAnswers(p) ==
  {[kind |-> "ok", items |-> {}, dates |-> <<1, 1>>, link |-> "none", assignees |-> {},
    status |-> 200]} \cup
  {[kind |-> "ok", items |-> {w \in WorkItems : ProjectOf(w) = p}, dates |-> d, link |-> l,
    assignees |-> as, status |-> 200] :
      d \in DatePairs, l \in MemberLinks, as \in AssigneeSets} \cup
  {[kind |-> "error", items |-> {}, dates |-> <<1, 1>>, link |-> "none", assignees |-> {},
    status |-> s] : s \in ProjectErrors}

\* ========================================================================
\* State classification
\* ========================================================================
\* String.prototype.toLowerCase; strings are sequences of characters
toLowerCaseStr_asIs(s) == s
toLowerCaseStr(s) == [i \in 1..Len(s) |-> toLowerCase(s[i])]

\* String.prototype.includes
includes(s, pattern) ==
  \E i \in 0..(Len(s) - Len(pattern)) : SubSeq(s, i + 1, i + Len(pattern)) = pattern

Unknown == <<"U", "n", "k", "n", "o", "w", "n">>

\* STATE_PATTERNS
STATE_PATTERNS(category) ==
  CASE category = "completed" -> {<<"d", "o", "n", "e">>,
        <<"c", "l", "o", "s", "e", "d">>,
        <<"c", "o", "m", "p", "l", "e", "t", "e">>,
        <<"c", "o", "m", "p", "l", "e", "t", "e", "d">>,
        <<"r", "e", "s", "o", "l", "v", "e", "d">>}
    [] category = "blocked" -> {<<"b", "l", "o", "c", "k">>,
          <<"b", "l", "o", "c", "k", "e", "d">>,
          <<"b", "l", "o", "c", "k", "i", "n", "g">>,
          <<"s", "t", "u", "c", "k">>,
          <<"o", "n", " ", "h", "o", "l", "d">>}
    [] category = "inProgress" -> {<<"p", "r", "o", "g", "r", "e", "s", "s">>,
          <<"i", "n", " ", "p", "r", "o", "g", "r", "e", "s", "s">>,
          <<"r", "e", "v", "i", "e", "w">>,
          <<"a", "c", "t", "i", "v", "e">>,
          <<"w", "o", "r", "k", "i", "n", "g">>,
          <<"s", "t", "a", "r", "t", "e", "d">>,
          <<"i", "n", " ", "r", "e", "v", "i", "e", "w">>,
          <<"i", "n", " ", "q", "a">>}
    [] category = "backlog" -> {<<"b", "a", "c", "k", "l", "o", "g">>,
          <<"t", "o", "d", "o">>,
          <<"t", "o", " ", "d", "o">>,
          <<"o", "p", "e", "n">>,
          <<"n", "e", "w">>,
          <<"p", "l", "a", "n", "n", "e", "d">>}
    [] OTHER -> {}

matchesStateCategory(state, category) ==
  /\ state # <<>>
  /\ \E pattern \in STATE_PATTERNS(category) : includes(toLowerCaseStr(state), pattern)

\* categorizeWorkItems: the list an item with this state is pushed to
categorizeWorkItems(itemState) ==
  LET state == IF itemState = <<>> THEN Unknown ELSE itemState
  IN IF matchesStateCategory(state, "completed") THEN "completed"
     ELSE IF matchesStateCategory(state, "blocked") THEN "blocked"
     ELSE IF matchesStateCategory(state, "inProgress") THEN "inProgress"
     ELSE "backlog"

classifyWorkItemState(state) ==
  IF state = <<>> THEN "backlog"
  ELSE LET stateLower == toLowerCaseStr(state)
       IN IF includes(stateLower, <<"d", "o", "n", "e">>) \/
             includes(stateLower, <<"c", "o", "m", "p", "l", "e", "t", "e">>) \/
             includes(stateLower, <<"c", "l", "o", "s", "e", "d">>)
            THEN "completed"
          ELSE IF includes(stateLower, <<"b", "l", "o", "c", "k">>) THEN "blocked"
          ELSE IF includes(stateLower, <<"p", "r", "o", "g", "r", "e", "s", "s">>) \/
                includes(stateLower, <<"r", "e", "v", "i", "e", "w">>) \/
                  includes(stateLower, <<"a", "c", "t", "i", "v", "e">>)
            THEN "inProgress"
          ELSE "backlog"

\* the state names handed to the classifiers: the empty name and one or two
\* words, each in lower case, in upper case or capitalised
StateNames ==
  LET Words == {<<"i", "n">>,
                <<"r", "e", "v", "i", "e", "w">>,
                <<"c", "l", "o", "s", "e", "d">>,
                <<"t", "r", "i", "a", "g", "e">>,
                <<"d", "o", "n", "e">>,
                <<"b", "l", "o", "c", "k", "e", "d">>,
                <<"p", "r", "o", "g", "r", "e", "s", "s">>,
                <<"o", "n">>,
                <<"h", "o", "l", "d">>,
                <<"n", "e", "w">>}
      lower == <<"a", "b", "c", "d", "e", "f", "g", "h", "i", "j", "k", "l", "m", "n",
                "o", "p", "q", "r", "s", "t", "u", "v", "w", "x", "y", "z">>
      upper == <<"A", "B", "C", "D", "E", "F", "G", "H", "I", "J", "K", "L", "M", "N",
                "O", "P", "Q", "R", "S", "T", "U", "V", "W", "X", "Y", "Z">>
      toUpperCase(c) ==
        IF \E i \in 1..26 : lower[i] = c
          THEN upper[CHOOSE i \in 1..26 : lower[i] = c] ELSE c
      Casings(w) == {w, [i \in 1..Len(w) |-> toUpperCase(w[i])],
                     [i \in 1..Len(w) |-> IF i = 1 THEN toUpperCase(w[i]) ELSE w[i]]}
      CasedWords == UNION {Casings(w) : w \in Words}
  IN {<<>>} \cup CasedWords \cup {a \o <<" ">> \o b : a \in CasedWords, b \in CasedWords}

StateInit ==
  /\ sState \in StateNames
  /\ sClass = "none"
  /\ sCategory = "none"
  /\ sBucket = "none"

\* classifyWorkItemState(state) is called
ClassifyState ==
  /\ sClass = "none"
  /\ sClass' = classifyWorkItemState(sState)
  /\ UNCHANGED <<sState, sCategory, sBucket, besidesState>>

\* categorizeWorkItems([{ state }]) is called
CategorizeState ==
  /\ sCategory = "none"
  /\ sCategory' = categorizeWorkItems(sState)
  /\ UNCHANGED <<sState, sClass, sBucket, besidesState>>

\* ========================================================================
\* Activity classifier (processActivities, getPersonDailySummary)
\* ========================================================================
\* The three copies of the classifier: processActivities of the team summary
\* (part_006), processActivities of the person summary (part_008) and the
\* loop of getPersonDailySummary (personDailySummary.js).
ClassifierImpls == {"part_006", "part_008", "personDailySummary"}

\* greatest timestamp of a record; the timestamps of one input are distinct,
\* except, in an input with ties, for at most MaxTies records that carry the
\* timestamp of the newest record of their work item so far
MaxStamp == 3
MaxTies == 1

\* the pattern table of utils/stateUtils.js
stateUtilsPatterns(category) ==
  CASE category = "completed" -> {<<"d", "o", "n", "e">>,
        <<"c", "l", "o", "s", "e", "d">>,
        <<"c", "o", "m", "p", "l", "e", "t", "e">>,
        <<"c", "o", "m", "p", "l", "e", "t", "e", "d">>}
    [] category = "blocked" -> {<<"b", "l", "o", "c", "k">>,
          <<"b", "l", "o", "c", "k", "e", "d">>,
          <<"b", "l", "o", "c", "k", "i", "n", "g">>}
    [] category = "inProgress" -> {<<"p", "r", "o", "g", "r", "e", "s", "s">>,
          <<"r", "e", "v", "i", "e", "w">>,
          <<"a", "c", "t", "i", "v", "e">>,
          <<"w", "o", "r", "k", "i", "n", "g">>,
          <<"s", "t", "a", "r", "t", "e", "d">>}
    [] category = "backlog" -> {<<"b", "a", "c", "k", "l", "o", "g">>,
          <<"t", "o", "d", "o">>,
          <<"o", "p", "e", "n">>,
          <<"n", "e", "w">>}
    [] OTHER -> {}

\* matchesStateCategory of utils/stateUtils.js
stateUtilsMatches(state, category) ==
  /\ state # <<>>
  /\ \E pattern \in stateUtilsPatterns(category) : includes(toLowerCaseStr(state), pattern)

\* the states a record carries: "Todo", "In Progress", "Done"
CarriedStates == {<<"T", "o", "d", "o">>, <<"I", "n", " ", "P", "r", "o", "g", "r", "e", "s", "s">>, <<"D", "o", "n", "e">>}

\* the records one work item can have at timestamp t; an absent string field
\* is the empty sequence, an absent time is 0
ActivitiesAt(w, t) ==
  {[type |-> "activity", workItem |-> w, field |-> "state", newValue |-> s, state |-> <<>>,
    time |-> t, updatedAt |-> 0, comment |-> <<>>] : s \in CarriedStates}
  \cup
  {[type |-> "activity", workItem |-> w, field |-> fv[1], newValue |-> fv[2], state |-> s,
    time |-> t, updatedAt |-> 0, comment |-> <<>>] :
      s \in CarriedStates, fv \in {<<"priority", <<"h", "i", "g", "h">>>>, <<"assignees", <<"b", "o", "b">>>>}}
  \cup
  {[type |-> "work_item_snapshot", workItem |-> w, field |-> "", newValue |-> <<>>,
    state |-> s, time |-> 0, updatedAt |-> t, comment |-> <<>>] : s \in CarriedStates}
  \cup
  {[type |-> "comment", workItem |-> w, field |-> "", newValue |-> <<>>, state |-> s,
    time |-> t, updatedAt |-> 0, comment |-> c] :
      s \in CarriedStates, c \in {<<"o", "k">>, <<" ">>}}
  \cup
  {[type |-> "subitem", workItem |-> w, field |-> "", newValue |-> <<>>, state |-> s,
    time |-> 0, updatedAt |-> t, comment |-> <<>>] : s \in CarriedStates}

ActivityInputs == UNION {ActivitiesAt(w, t) : w \in WorkItems, t \in 1..MaxStamp}

\* a || b on strings and on times
OrStr(a, b) == IF a # <<>> THEN a ELSE b
OrTime(a, b) == IF a # 0 THEN a ELSE b

\* commentText.trim().length > 0
trimHasText(s) == \E i \in 1..Len(s) : s[i] # " "

\* list.find((c) => c.id === id); the lists keep the ids of their entries
find(list, id) == \E i \in 1..Len(list) : list[i] = id
pushIfAbsent(list, id) == IF find(list, id) THEN list ELSE Append(list, id)

\* workItemStates is a Map: it keeps the order in which its keys were first set
wisHas(m, id) == \E i \in 1..Len(m) : m[i].id = id
wisGet(m, id) == m[CHOOSE i \in 1..Len(m) : m[i].id = id]
wisSet(m, e) ==
  IF wisHas(m, e.id) THEN [i \in 1..Len(m) |-> IF m[i].id = e.id THEN e ELSE m[i]]
  ELSE Append(m, e)

\* if (!existing || activityTime > new Date(existing.time)) workItemStates.set(...)
\* (a comparison with the Date of an absent time is false)
setIfLater(m, id, st, t) ==
  IF ~wisHas(m, id) \/ (t # 0 /\ wisGet(m, id).time # 0 /\ t > wisGet(m, id).time)
    THEN wisSet(m, [id |-> id, state |-> st, time |-> t])
    ELSE m

\* the timestamp of a record
Stamp(a) == OrTime(a.time, a.updatedAt)

ClassifierInit ==
  /\ aImpl \in ClassifierImpls
  /\ workItemStates = <<>>
  /\ completed = <<>>
  /\ inProgress = <<>>
  /\ todo = <<>>
  /\ blockers = <<>>
  /\ returned = FALSE
  /\ stamped = {}
  /\ newest = EmptyMap
  /\ tied = <<>>
  /\ tiesLeft = 0

\* the subitem branch of both processActivities copies
SubitemBranch(a) ==
  IF stateUtilsMatches(OrStr(a.state, Unknown), "completed")
    THEN /\ completed' = pushIfAbsent(completed, a.workItem)
         /\ UNCHANGED inProgress
    ELSE /\ inProgress' = pushIfAbsent(inProgress, a.workItem)
         /\ UNCHANGED completed

\* one iteration of the first loop of processActivities (team summary)
Process_part_006(a) ==
  IF a.field \in {"assignees", "assignee"}
    THEN UNCHANGED <<workItemStates, completed, inProgress>>
  ELSE IF a.type \in {"activity", "work_item_snapshot"}
    THEN /\ workItemStates' =
              setIfLater(workItemStates, a.workItem,
                         IF a.field \in {"state", "status"}
                           THEN OrStr(OrStr(a.newValue, a.state), Unknown)
                           ELSE OrStr(OrStr(a.state, a.newValue), Unknown),
                         OrTime(a.time, a.updatedAt))
         /\ UNCHANGED <<completed, inProgress>>
  ELSE IF a.type = "comment"
    THEN /\ workItemStates' =
              IF trimHasText(a.comment)
                THEN setIfLater(workItemStates, a.workItem, OrStr(a.state, Unknown), a.time)
                ELSE workItemStates
         /\ UNCHANGED <<completed, inProgress>>
  ELSE /\ a.type = "subitem"
       /\ SubitemBranch(a)
       /\ UNCHANGED workItemStates

\* one iteration of the first loop of processActivities (person summary)
Process_part_008(a) ==
  IF a.field \in {"assignees", "assignee"}
    THEN UNCHANGED <<workItemStates, completed, inProgress>>
  ELSE IF a.type \in {"activity", "work_item_snapshot"}
    THEN /\ workItemStates' =
              setIfLater(workItemStates, a.workItem,
                         OrStr(OrStr(a.newValue, a.state), Unknown),
                         OrTime(a.time, a.updatedAt))
         /\ UNCHANGED <<completed, inProgress>>
  ELSE IF a.type = "comment"
    THEN /\ inProgress' =
              IF trimHasText(a.comment) /\ ~find(completed, a.workItem)
                THEN pushIfAbsent(inProgress, a.workItem)
                ELSE inProgress
         /\ UNCHANGED <<workItemStates, completed>>
  ELSE /\ a.type = "subitem"
       /\ SubitemBranch(a)
       /\ UNCHANGED workItemStates

\* one iteration of the loop of getPersonDailySummary; comments and subitems
\* go to lists of their own and leave the states alone
Process_personDailySummary(a) ==
  IF a.type \in {"activity", "work_item_snapshot"}
    THEN /\ workItemStates' =
              setIfLater(workItemStates, a.workItem,
                         OrStr(OrStr(a.newValue, a.state), Unknown),
                         OrTime(a.time, a.updatedAt))
         /\ UNCHANGED <<completed, inProgress>>
    ELSE UNCHANGED <<workItemStates, completed, inProgress>>

\* the classifier takes the next record of its input
ProcessActivity(a) ==
  /\ ~returned
  /\ IF Stamp(a) \in stamped
     THEN /\ tiesLeft > 0
          /\ a.workItem \in DOMAIN newest
          /\ Stamp(newest[a.workItem]) = Stamp(a)
          /\ newest[a.workItem] # a
     ELSE TRUE
  /\ CASE aImpl = "part_006" -> Process_part_006(a)
       [] aImpl = "part_008" -> Process_part_008(a)
       [] OTHER -> Process_personDailySummary(a)
  /\ stamped' = stamped \cup {Stamp(a)}
  /\ newest' = IF a.workItem \notin DOMAIN newest \/ Stamp(a) >= Stamp(newest[a.workItem])
                 THEN MapSet(newest, a.workItem, a) ELSE newest
  /\ tied' = IF Stamp(a) \in stamped THEN Append(tied, a) ELSE tied
  /\ tiesLeft' = IF Stamp(a) \in stamped THEN tiesLeft - 1 ELSE tiesLeft
  /\ UNCHANGED <<aImpl, todo, blockers, returned, besidesClassifier>>

\* one iteration of the second loop of processActivities
CategorizeEntry(lists, workItem) ==
  IF stateUtilsMatches(workItem.state, "completed")
    THEN [lists EXCEPT !.completed = pushIfAbsent(@, workItem.id)]
  ELSE IF stateUtilsMatches(workItem.state, "inProgress")
    THEN [lists EXCEPT !.inProgress = pushIfAbsent(@, workItem.id)]
  ELSE IF ~find(lists.todo, workItem.id) /\ ~find(lists.completed, workItem.id) /\
          ~find(lists.inProgress, workItem.id)
    THEN [lists EXCEPT !.todo = Append(@, workItem.id)]
  ELSE lists

\* one iteration of the per-project loop of getPersonDailySummary
CategorizeEntry_personDailySummary(lists, workItem) ==
  IF stateUtilsMatches(workItem.state, "completed")
    THEN [lists EXCEPT !.completed = Append(@, workItem.id)]
  ELSE IF stateUtilsMatches(workItem.state, "blocked")
    THEN [lists EXCEPT !.blockers = Append(@, workItem.id)]
  ELSE [lists EXCEPT !.inProgress = Append(@, workItem.id)]

RECURSIVE CategorizeFrom(_, _, _, _)
CategorizeFrom(impl, lists, entries, i) ==
  IF i > Len(entries) THEN lists
  ELSE CategorizeFrom(impl,
                      IF impl = "personDailySummary"
                        THEN CategorizeEntry_personDailySummary(lists, entries[i])
                        ELSE CategorizeEntry(lists, entries[i]),
                      entries, i + 1)

\* the second loop of processActivities runs over one entry of workItemStates
\* that holds the state name (the first loop stores state || "Unknown")
BucketState ==
  /\ sBucket = "none"
  /\ LET out == CategorizeEntry([completed |-> <<>>, inProgress |-> <<>>, todo |-> <<>>,
                                 blockers |-> <<>>],
                                [id |-> "w1", state |-> OrStr(sState, Unknown), time |-> 0])
     IN sBucket' = CHOOSE l \in {"completed", "inProgress", "todo"} : find(out[l], "w1")
  /\ UNCHANGED <<sState, sClass, sCategory, besidesState>>

\* an input with ties: state and priority changes, up to MaxTies of them
\* carrying a timestamp that an earlier record of the work item carries
TieInputs == {a \in ActivityInputs : a.type = "activity" /\ a.field \in {"state", "priority"}}
TiesInit ==
  /\ aImpl \in ClassifierImpls
  /\ workItemStates = <<>>
  /\ completed = <<>>
  /\ inProgress = <<>>
  /\ todo = <<>>
  /\ blockers = <<>>
  /\ returned = FALSE
  /\ stamped = {}
  /\ newest = EmptyMap
  /\ tied = <<>>
  /\ tiesLeft = MaxTies

\* the input is exhausted: the states are put into the lists, which are returned
ReturnCategories ==
  /\ ~returned
  /\ LET out == CategorizeFrom(aImpl,
                               [completed |-> completed, inProgress |-> inProgress,
                                todo |-> todo, blockers |-> blockers],
                               workItemStates, 1)
     IN /\ completed' = out.completed
        /\ inProgress' = out.inProgress
        /\ todo' = out.todo
        /\ blockers' = out.blockers
  /\ returned' = TRUE
  /\ UNCHANGED <<aImpl, workItemStates, stamped, newest, tied, tiesLeft, besidesClassifier>>

\* ========================================================================
\* Name comparison (namesMatch)
\* ========================================================================
\* the names handed to namesMatch: the empty name, a name of separators only,
\* and a first name and a second part in several casings, joined by nothing
\* or by a separator
NameInputs ==
  LET First == {<<"s", "h", "r", "u", "t", "i">>,
                <<"S", "h", "r", "u", "t", "i">>}
      Second == {<<"d", "h", "a", "s", "m", "a", "n", "a">>,
                 <<"D", "h", "a", "s", "m", "a", "n", "a">>,
                 <<"d">>, <<"D">>}
      Joins == {<<>>, <<".">>, <<" ">>, <<"-">>, <<"_">>, <<".", " ">>}
  IN {<<>>, <<".">>} \cup {f \o j \o s : f \in First, j \in Joins, s \in Second}

NamesInit ==
  /\ nName1 \in NameInputs
  /\ nName2 \in NameInputs
  /\ nMatch = "none"

\* namesMatch(name1, name2) is called
CompareNames ==
  /\ nMatch = "none"
  /\ nMatch' = IF namesMatch(nName1, nName2) THEN "match" ELSE "differ"
  /\ UNCHANGED <<nName1, nName2, besidesNames>>

\* ========================================================================
\* Paginated fetchers (fetchProjects, fetchWorkItems, fetchWorkItemActivities)
\* ========================================================================
PageImpls == {"modular", "direct"}
Fetchers == {"fetchProjects", "fetchWorkItems", "fetchWorkItemActivities"}
MaxPages == 3
MAX_WORK_ITEMS_PER_PROJECT == 200
MAX_ITERATIONS == 10
MAX_PROJECT_ITERATIONS_DIRECT == 20

\* The upstream's list: sizes[n] items on page n; every page but the last
\* carries a next cursor, and an endless upstream carries one on every page,
\* serving its last page again and again.
PageSizes == {0, 1, 100}
Upstreams ==
  {[sizes |-> s, endless |-> e] :
     s \in UNION {[1..k -> PageSizes] : k \in 1..MaxPages}, e \in BOOLEAN}
NoCursor == 0
PageSize(up, n) == up.sizes[IF n <= Len(up.sizes) THEN n ELSE Len(up.sizes)]
\* data.next_cursor of page n
NextCursorOf(up, n) == IF up.endless \/ n < Len(up.sizes) THEN n + 1 ELSE NoCursor
\* the page a request with this cursor is answered with
PageAt(c) == IF c = NoCursor THEN 1 ELSE c

RECURSIVE Total(_)
Total(counts) == IF counts = <<>> THEN 0 ELSE Head(counts) + Total(Tail(counts))
Min(a, b) == IF a <= b THEN a ELSE b

PagesInit ==
  /\ pgImpl \in PageImpls
  /\ fetcher \in Fetchers
  /\ upstream \in Upstreams
  /\ cursor = NoCursor
  /\ hasMore = TRUE
  /\ iteration = 0
  /\ gathered = <<>>
  /\ requests = 0
  /\ requestFailed = FALSE
  /\ pgResult = "none"

\* fetchProjects: iteration++; if (iteration > cap) break
IterationCap_none(impl) == MAX_ITERATIONS * 100
IterationCap(impl) ==
  IF impl = "direct" THEN MAX_PROJECT_ITERATIONS_DIRECT ELSE MAX_ITERATIONS

\* does the fetcher go on after a page of `size` items with cursor `next`?
\* direct follows the cursor only after a page that held results
FollowsCursor(impl, size, next) ==
  IF impl = "direct" THEN size > 0 /\ next # NoCursor ELSE next # NoCursor

\* one pass of `while (hasMore)` of fetchProjects
FetchProjectsPage ==
  /\ fetcher = "fetchProjects" /\ pgResult = "none" /\ hasMore
  /\ iteration' = iteration + 1
  /\ IF iteration' > IterationCap(pgImpl)
     THEN /\ pgResult' = "returned"
          /\ UNCHANGED <<cursor, hasMore, gathered, requests>>
     ELSE LET n == PageAt(cursor)
              size == PageSize(upstream, n)
              next == NextCursorOf(upstream, n)
          IN /\ requests' = requests + 1
             /\ gathered' = Append(gathered, size)
             /\ hasMore' = FollowsCursor(pgImpl, size, next)
             /\ cursor' = IF pgImpl = "direct" /\ size = 0 THEN cursor ELSE next
             /\ pgResult' = "none"
  /\ UNCHANGED <<pgImpl, fetcher, upstream, requestFailed, besidesPages>>

\* while (hasMore && workItems.length < MAX_WORK_ITEMS_PER_PROJECT &&
\*        iteration < MAX_ITERATIONS)
WorkItemsLoop ==
  hasMore /\ Total(gathered) < MAX_WORK_ITEMS_PER_PROJECT /\ iteration < MAX_ITERATIONS

\* one pass of the loop of fetchWorkItems
FetchWorkItemsPage ==
  /\ fetcher = "fetchWorkItems" /\ pgResult = "none" /\ WorkItemsLoop
  /\ iteration' = iteration + 1
  /\ requests' = requests + 1
  /\ LET n == PageAt(cursor)
         size == PageSize(upstream, n)
         next == NextCursorOf(upstream, n)
         remaining == MAX_WORK_ITEMS_PER_PROJECT - Total(gathered)
     IN /\ gathered' = Append(gathered, Min(size, remaining))
        /\ hasMore' = (FollowsCursor(pgImpl, size, next) /\
                       Total(gathered') < MAX_WORK_ITEMS_PER_PROJECT)
        /\ cursor' = IF pgImpl = "modular" THEN next
                     ELSE IF size = 0 THEN cursor
                     ELSE IF hasMore' THEN next ELSE NoCursor
  /\ UNCHANGED <<pgImpl, fetcher, upstream, requestFailed, pgResult, besidesPages>>

\* the loop condition is false: return what was gathered
FetchLoopExit ==
  /\ pgResult = "none"
  /\ \/ fetcher = "fetchProjects" /\ ~hasMore
     \/ fetcher = "fetchWorkItems" /\ ~WorkItemsLoop
  /\ pgResult' = "returned"
  /\ UNCHANGED <<pgImpl, fetcher, upstream, cursor, hasMore, iteration, gathered,
                 requests, requestFailed, besidesPages>>

\* fetchWorkItemActivities (and the comment and subitem fetchers of the same
\* shape): one request, return getResults(response.data)
FetchActivitiesPage ==
  /\ fetcher = "fetchWorkItemActivities" /\ pgResult = "none"
  /\ requests' = requests + 1
  /\ gathered' = <<PageSize(upstream, 1)>>
  /\ pgResult' = "returned"
  /\ UNCHANGED <<pgImpl, fetcher, upstream, cursor, hasMore, iteration, requestFailed,
                 besidesPages>>

\* the request throws (retries exhausted or a non-429 error): fetchProjects and
\* fetchWorkItems let it propagate, the per-item fetchers catch it and return []
PageRequestThrows ==
  /\ pgResult = "none"
  /\ \/ fetcher = "fetchProjects" /\ hasMore /\ iteration + 1 <= IterationCap(pgImpl)
     \/ fetcher = "fetchWorkItems" /\ WorkItemsLoop
     \/ fetcher = "fetchWorkItemActivities"
  /\ requests' = requests + 1
  /\ requestFailed' = TRUE
  /\ IF fetcher = "fetchWorkItemActivities"
     THEN pgResult' = "returned" /\ gathered' = <<>>
     ELSE pgResult' = "threw" /\ UNCHANGED gathered
  /\ UNCHANGED <<pgImpl, fetcher, upstream, cursor, hasMore, iteration, besidesPages>>

\* ========================================================================
\* Summary command handlers (handleTeamDailySummary, handlePersonDailySummary)
\* ========================================================================
Commands == {"team_daily_summary", "person_daily_summary"}
\* the required option (project, person): a name, absent, or a blank string
RequiredOptions == {"given", "absent", "blank"}
DateOptions == {"absent", "valid", "invalid"}
\* what Discord does with a follow-up request: accepts it, answers with a
\* non-ok status, or the request itself fails
DiscordAnswers == {"ok", "notOk", "throws"}
\* how the work between validation and the final message ends
WorkOutcomes(cmd) ==
  IF cmd = "team_daily_summary"
  THEN {"projectNotFound", "noActivity", "summary", "error"}
  ELSE {"summary", "error"}

HandlerInit ==
  /\ command \in Commands
  /\ requiredOption \in RequiredOptions
  /\ dateInput \in DateOptions
  /\ discord \in DiscordAnswers
  /\ hPc = "received"
  /\ acked = FALSE
  /\ message = "none"
  /\ followUps = 0
  /\ delivered = 0
  /\ hReturned = "none"

\* ctx.waitUntil(handler(interaction, env)); return Response.json(createDeferredResponse())
\* -- what the handler returns goes to waitUntil and is never sent
HandleApplicationCommand ==
  /\ hPc = "received"
  /\ acked' = TRUE
  /\ hPc' = "validate"
  /\ UNCHANGED <<command, requiredOption, dateInput, discord, message, followUps,
                 delivered, hReturned, besidesHandler>>

\* the invalid-date branch: handleTeamDailySummary sends a follow-up,
\* handlePersonDailySummary returns createErrorResponse(...)
InvalidDateFollowsUp(cmd) == cmd = "team_daily_summary"

\* the checks at the head of the handler
ValidateOptions ==
  /\ hPc = "validate"
  /\ IF requiredOption # "given"
     THEN hReturned' = "errorResponse" /\ hPc' = "done" /\ UNCHANGED message
     ELSE IF dateInput = "invalid"
     THEN IF InvalidDateFollowsUp(command)
          THEN message' = "invalidDate" /\ hPc' = "send" /\ UNCHANGED hReturned
          ELSE hReturned' = "errorResponse" /\ hPc' = "done" /\ UNCHANGED message
     ELSE hPc' = "work" /\ UNCHANGED <<message, hReturned>>
  /\ UNCHANGED <<command, requiredOption, dateInput, discord, acked, followUps,
                 delivered, besidesHandler>>

\* fetching, processing and summary generation, up to the choice of the message
HandlerWork ==
  /\ hPc = "work"
  /\ \E o \in WorkOutcomes(command) : message' = o
  /\ hPc' = "send"
  /\ UNCHANGED <<command, requiredOption, dateInput, discord, acked, followUps,
                 delivered, hReturned, besidesHandler>>

\* await sendFollowUp(app_id, interaction_token, payload): a failed delivery is
\* logged and swallowed
SendFollowUp ==
  /\ hPc = "send"
  /\ followUps' = followUps + 1
  /\ delivered' = IF discord = "ok" THEN delivered + 1 ELSE delivered
  /\ hReturned' = "undefined"
  /\ hPc' = "done"
  /\ UNCHANGED <<command, requiredOption, dateInput, discord, acked, message,
                 besidesHandler>>

\* ========================================================================
\* One call of a resource fetcher through its caching accessor, the cache
\* holding nothing for the key: the client check, the page request with its
\* retries, the catch block of the fetcher and the write of the accessor
\* ========================================================================
FetcherNames ==
  {"fetchProjects", "fetchWorkItems", "fetchWorkItemActivities", "fetchWorkItemComments"}

\* ensureApi() / getServiceConfig() ahead of the try block: every fetcher of
\* dataFetchers.js, and those of planeApiDirect.js but fetchWorkItemComments
\* (and fetchWorkItemSubitems)
ChecksClient(impl, f) == impl = "modular" \/ f # "fetchWorkItemComments"

\* catch (error) { ...; return []; } around the page request
CatchesErrors(f) == f \in {"fetchWorkItemActivities", "fetchWorkItemComments"}

\* the requestFn handed to apiRequestWithRetry: apiGet, which runs
\* apiRequestWithRetry itself, in dataFetchers.js; PLANE_API.get in
\* planeApiDirect.js
RequestFnRetries(impl) == impl = "modular"

NoFetcherResult == [kind |-> "pending", status |-> 0]

FetcherInit ==
  /\ fImpl \in {"modular", "direct"}
  /\ fName \in FetcherNames
  /\ PLANE_API \in {"null", "client"}
  /\ fPc = "entry"
  /\ outerAttempt = 0
  /\ innerAttempt = 0
  /\ upstreamAnswers = <<>>
  /\ fResult = NoFetcherResult
  /\ stored = "nothing"

\* the fetcher gives up with an error of the given status: its catch block
\* answers [], which the accessor stores like any other answer; without a
\* catch block the error reaches the caller and the accessor stores nothing
FetcherFails(status) ==
  IF CatchesErrors(fName)
    THEN /\ fResult' = [kind |-> "emptyList", status |-> status]
         /\ stored' = "emptyList"
    ELSE /\ fResult' = [kind |-> "threw", status |-> status]
         /\ UNCHANGED stored

\* the fetcher is entered: the client check
CallFetcher ==
  /\ fPc = "entry"
  /\ IF ChecksClient(fImpl, fName) /\ PLANE_API = "null"
       THEN /\ fResult' = [kind |-> "notInitialized", status |-> 0]
            /\ fPc' = "done"
       ELSE /\ fPc' = "request"
            /\ UNCHANGED fResult
  /\ UNCHANGED <<fImpl, fName, PLANE_API, outerAttempt, innerAttempt, upstreamAnswers,
                 stored, besidesFetcher>>

\* requestFn runs.  With no client, PLANE_API.get throws a TypeError before
\* anything is sent (an error without response, status 0 here); otherwise
\* the request reaches the upstream, which answers with a status.
RequestFn(status) ==
  /\ fPc = "request"
  /\ PLANE_API = "null" => status = 0
  /\ upstreamAnswers' = IF PLANE_API = "null" THEN upstreamAnswers
                        ELSE Append(upstreamAnswers, status)
  /\ IF status = 200
       THEN /\ fResult' = [kind |-> "data", status |-> 200]
            /\ stored' = "data"
            /\ fPc' = "done"
       ELSE IF IsRateLimited([status |-> status])
         THEN /\ fPc' = IF RequestFnRetries(fImpl) THEN "innerSleep" ELSE "outerSleep"
              /\ UNCHANGED <<fResult, stored>>
         ELSE /\ FetcherFails(status)
              /\ fPc' = "done"
  /\ UNCHANGED <<fImpl, fName, PLANE_API, outerAttempt, innerAttempt, besidesFetcher>>

\* the sleep of apiGet's apiRequestWithRetry is over: attempt++ and the loop
\* test; leaving the loop throws the 429 to the apiRequestWithRetry of the
\* fetcher, whose catch block sleeps in its turn
InnerSleepDone ==
  /\ fPc = "innerSleep"
  /\ innerAttempt' = innerAttempt + 1
  /\ fPc' = IF LoopContinues(innerAttempt + 1) THEN "request" ELSE "outerSleep"
  /\ UNCHANGED <<fImpl, fName, PLANE_API, outerAttempt, upstreamAnswers, fResult, stored,
                 besidesFetcher>>

\* the sleep of the fetcher's apiRequestWithRetry is over: attempt++ and the
\* loop test; requestFn is called afresh, or lastError is thrown
OuterSleepDone ==
  /\ fPc = "outerSleep"
  /\ outerAttempt' = outerAttempt + 1
  /\ IF LoopContinues(outerAttempt + 1)
       THEN /\ fPc' = "request"
            /\ innerAttempt' = 0
            /\ UNCHANGED <<fResult, stored>>
       ELSE /\ fPc' = "done"
            /\ FetcherFails(429)
            /\ UNCHANGED innerAttempt
  /\ UNCHANGED <<fImpl, fName, PLANE_API, upstreamAnswers, besidesFetcher>>

\* ========================================================================
\* fetchUserName and preloadAllUsers, within one session
\* ========================================================================
Lookups == 1..MaxLookups
UserIds == {"u1", "u2"}
Members == {"u1"}          \* the ids in the members list of the workspace
NoName == <<>>
DisplayName(id) == <<"name", id>>

UsersInit ==
  /\ uImpl \in {"modular", "direct"}
  /\ usersCache = {}
  /\ allUsersLoaded = FALSE
  /\ uPc = [c \in Lookups |-> "idle"]
  /\ uId = [c \in Lookups |-> "u1"]
  /\ uName = [c \in Lookups |-> NoName]
  /\ memberRequests = 0

\* fetchUserName(userId) up to its first suspension: the name from the
\* cache, or the members list is requested (by preloadAllUsers in
\* planeApiDirect.js, unless a preload has succeeded; by getWorkspaceMembers
\* in dataFetchers.js), or the id itself.
FetchUserName(c, userId) ==
  /\ uPc[c] = "idle"
  /\ uId' = [uId EXCEPT ![c] = userId]
  /\ IF userId \in usersCache
       THEN /\ uName' = [uName EXCEPT ![c] = DisplayName(userId)]
            /\ uPc' = [uPc EXCEPT ![c] = "done"]
            /\ UNCHANGED memberRequests
       ELSE IF uImpl = "direct" /\ allUsersLoaded
         THEN /\ uName' = [uName EXCEPT ![c] = userId]
              /\ uPc' = [uPc EXCEPT ![c] = "done"]
              /\ UNCHANGED memberRequests
         ELSE /\ memberRequests' = memberRequests + 1
              /\ uPc' = [uPc EXCEPT ![c] = "awaiting"]
              /\ UNCHANGED uName
  /\ UNCHANGED <<uImpl, usersCache, allUsersLoaded, besidesUsers>>

\* the members request of one fetchUserName call has been answered (ok) or
\* has failed; both copies catch the failure.  preloadAllUsers caches every
\* member and sets allUsersLoaded; the fetchUserName of dataFetchers.js
\* caches the one user it was looking for.
MembersAnswered(c, ok) ==
  /\ uPc[c] = "awaiting"
  /\ uPc' = [uPc EXCEPT ![c] = "done"]
  /\ IF uImpl = "direct"
       THEN /\ usersCache' = IF ok THEN usersCache \cup Members ELSE usersCache
            /\ allUsersLoaded' = (allUsersLoaded \/ ok)
            /\ uName' = [uName EXCEPT ![c] =
                 IF uId[c] \in usersCache' THEN DisplayName(uId[c]) ELSE uId[c]]
       ELSE /\ usersCache' = IF ok /\ uId[c] \in Members
                               THEN usersCache \cup {uId[c]} ELSE usersCache
            /\ uName' = [uName EXCEPT ![c] =
                 IF ok /\ uId[c] \in Members THEN DisplayName(uId[c]) ELSE uId[c]]
            /\ UNCHANGED allUsersLoaded
  /\ UNCHANGED <<uImpl, uId, memberRequests, besidesUsers>>

\* ========================================================================
\* The loops of one task over the activities, the comments and the subitems
\* the upstream returned for its work item
\* ========================================================================
MAX_ACTIVITIES_PER_ITEM == 20

RecordTypes == {"activity", "comment", "subitem"}
\* an upstream record: its created_at and the name fetchUserName gives for
\* its actor (for a subitem: its assignee)
UpstreamRecords == [time : 1..4, actor : ActorNames]
\* the lists the upstream returns: one record and copies of another one,
\* before or after it
ListLengths == {0, 1, 2, MAX_ACTIVITIES_PER_ITEM, MAX_ACTIVITIES_PER_ITEM + MaxExtra}
UpstreamLists ==
  {[i \in 1..n |-> IF i = at THEN one ELSE other] :
     n \in ListLengths, at \in {1, MAX_ACTIVITIES_PER_ITEM + MaxExtra},
     one \in UpstreamRecords, other \in UpstreamRecords}

\* the records a loop goes through: planeApiDirect.js loops over
\* itemActivities.slice(0, MAX_ACTIVITIES_PER_ITEM) and
\* comments.slice(0, MAX_ACTIVITIES_PER_ITEM), teamActivities.js over the
\* whole lists; both over every subitem
Examined(impl, type, list) ==
  IF impl = "direct" /\ type # "subitem"
    THEN SubSeq(list, 1, Min(Len(list), MAX_ACTIVITIES_PER_ITEM))
    ELSE list

\* the tests a record passes to be pushed
Pushes(type, filter, rec) ==
  IF type = "subitem"
    THEN isAssignedToActor({rec.actor}, filter)
    ELSE /\ isDateInRange(rec.time, Window.startDate, Window.endDate)
         /\ shouldIncludeActor(filter, rec.actor)

CollectorInit ==
  /\ colImpl \in {"modular", "direct"}
  /\ colType \in RecordTypes
  /\ colFilter \in Filters
  /\ upstreamList \in UpstreamLists
  /\ examinedCount = 0
  /\ pushed = <<>>
  /\ colDone = FALSE

\* one iteration of the loop
CollectRecord ==
  /\ ~colDone
  /\ examinedCount < Len(Examined(colImpl, colType, upstreamList))
  /\ examinedCount' = examinedCount + 1
  /\ pushed' = IF Pushes(colType, colFilter, upstreamList[examinedCount + 1])
                 THEN Append(pushed, examinedCount + 1) ELSE pushed
  /\ UNCHANGED <<colImpl, colType, colFilter, upstreamList, colDone, besidesCollector>>

\* the loop is left
CollectEnd ==
  /\ ~colDone
  /\ examinedCount = Len(Examined(colImpl, colType, upstreamList))
  /\ colDone' = TRUE
  /\ UNCHANGED <<colImpl, colType, colFilter, upstreamList, examinedCount, pushed,
                 besidesCollector>>

\* ========================================================================
\* Specifications
\* ========================================================================
\* the components that take no step in a specification rest in one state
LimiterIdle ==
  /\ maxConcurrent = MAX_CONCURRENT_PROJECT_FETCHES
  /\ running = 0
  /\ queue = <<>>
  /\ lpc = [t \in Tasks |-> "idle"]
  /\ arrivals = <<>>

RetryIdle ==
  /\ rImpl = "direct"
  /\ rPc = "call"
  /\ attempt = 0
  /\ answers = <<>>
  /\ lastError = NoError
  /\ delayMs = 0
  /\ sleeps = <<>>
  /\ rResult = [kind |-> "pending", id |-> 0, status |-> 0]

CacheIdle ==
  /\ cImpl = "direct"
  /\ now = ClockStep
  /\ currentSessionId = NoSession
  /\ sessionStartTime = 0
  /\ cache = [r \in Resources |-> EmptyMap]
  /\ pendingRequests = EmptyMap
  /\ inflight = EmptyMap
  /\ fetchCount = 0
  /\ callsMade = 0
  /\ lastCall = NoCall
  /\ sessionsStarted = 0
  /\ disturbed = {}
  /\ failed = EmptyMap
  /\ clearedFetches = {}
  /\ fetched = [pk \in Pairs |-> "no"]

TeamIdle ==
  /\ tImpl = "direct"
  /\ actorFilter = NoFilter
  /\ pStage = [p \in Projects |-> "start"]
  /\ taskStage = [w \in WorkItems |-> "none"]
  /\ assignees = [w \in WorkItems |-> {}]
  /\ activities = [w \in WorkItems |-> <<>>]
  /\ quiet = [w \in WorkItems |-> FALSE]
  /\ fetchFailed = [w \in WorkItems |-> FALSE]
  /\ fetchesIssued = [w \in WorkItems |-> FALSE]
  /\ runResult = Pending
  /\ listed = [w \in WorkItems |-> Unlisted]

StateIdle ==
  /\ sState = <<>>
  /\ sClass = "none"
  /\ sCategory = "none"
  /\ sBucket = "none"

ClassifierIdle ==
  /\ aImpl = "part_006"
  /\ workItemStates = <<>>
  /\ completed = <<>>
  /\ inProgress = <<>>
  /\ todo = <<>>
  /\ blockers = <<>>
  /\ returned = FALSE
  /\ stamped = {}
  /\ newest = EmptyMap
  /\ tied = <<>>
  /\ tiesLeft = 0

NamesIdle ==
  /\ nName1 = <<>>
  /\ nName2 = <<>>
  /\ nMatch = "none"

PagesIdle ==
  /\ pgImpl = "modular"
  /\ fetcher = "none"
  /\ upstream = [sizes |-> <<0>>, endless |-> FALSE]
  /\ cursor = NoCursor
  /\ hasMore = FALSE
  /\ iteration = 0
  /\ gathered = <<>>
  /\ requests = 0
  /\ requestFailed = FALSE
  /\ pgResult = "none"

HandlerIdle ==
  /\ command = "none"
  /\ requiredOption = "absent"
  /\ dateInput = "absent"
  /\ discord = "ok"
  /\ hPc = "idle"
  /\ acked = FALSE
  /\ message = "none"
  /\ followUps = 0
  /\ delivered = 0
  /\ hReturned = "none"

FetcherIdle ==
  /\ fImpl = "modular"
  /\ fName = "fetchProjects"
  /\ PLANE_API = "client"
  /\ fPc = "entry"
  /\ outerAttempt = 0
  /\ innerAttempt = 0
  /\ upstreamAnswers = <<>>
  /\ fResult = NoFetcherResult
  /\ stored = "nothing"

UsersIdle ==
  /\ uImpl = "modular"
  /\ usersCache = {}
  /\ allUsersLoaded = FALSE
  /\ uPc = [c \in Lookups |-> "idle"]
  /\ uId = [c \in Lookups |-> "u1"]
  /\ uName = [c \in Lookups |-> NoName]
  /\ memberRequests = 0

CollectorIdle ==
  /\ colImpl = "modular"
  /\ colType = "activity"
  /\ colFilter = NoFilter
  /\ upstreamList = <<>>
  /\ examinedCount = 0
  /\ pushed = <<>>
  /\ colDone = FALSE

InitLimiter ==
  LimiterInit /\ RetryIdle /\ CacheIdle /\ TeamIdle /\ StateIdle /\ ClassifierIdle /\
  NamesIdle /\ PagesIdle /\ HandlerIdle /\ FetcherIdle /\ UsersIdle /\ CollectorIdle
InitRetry ==
  LimiterIdle /\ RetryInit /\ CacheIdle /\ TeamIdle /\ StateIdle /\ ClassifierIdle /\
  NamesIdle /\ PagesIdle /\ HandlerIdle /\ FetcherIdle /\ UsersIdle /\ CollectorIdle
InitCache ==
  LimiterIdle /\ RetryIdle /\ CacheInit /\ TeamIdle /\ StateIdle /\ ClassifierIdle /\
  NamesIdle /\ PagesIdle /\ HandlerIdle /\ FetcherIdle /\ UsersIdle /\ CollectorIdle
InitTeam ==
  LimiterIdle /\ RetryIdle /\ CacheIdle /\ TeamInit /\ StateIdle /\ ClassifierIdle /\
  NamesIdle /\ PagesIdle /\ HandlerIdle /\ FetcherIdle /\ UsersIdle /\ CollectorIdle
InitState ==
  LimiterIdle /\ RetryIdle /\ CacheIdle /\ TeamIdle /\ StateInit /\ ClassifierIdle /\
  NamesIdle /\ PagesIdle /\ HandlerIdle /\ FetcherIdle /\ UsersIdle /\ CollectorIdle
InitClassifier ==
  LimiterIdle /\ RetryIdle /\ CacheIdle /\ TeamIdle /\ StateIdle /\ ClassifierInit /\
  NamesIdle /\ PagesIdle /\ HandlerIdle /\ FetcherIdle /\ UsersIdle /\ CollectorIdle
InitTies ==
  LimiterIdle /\ RetryIdle /\ CacheIdle /\ TeamIdle /\ StateIdle /\ TiesInit /\ NamesIdle /\
  PagesIdle /\ HandlerIdle /\ FetcherIdle /\ UsersIdle /\ CollectorIdle
InitNames ==
  LimiterIdle /\ RetryIdle /\ CacheIdle /\ TeamIdle /\ StateIdle /\ ClassifierIdle /\
  NamesInit /\ PagesIdle /\ HandlerIdle /\ FetcherIdle /\ UsersIdle /\ CollectorIdle
InitPages ==
  LimiterIdle /\ RetryIdle /\ CacheIdle /\ TeamIdle /\ StateIdle /\ ClassifierIdle /\
  NamesIdle /\ PagesInit /\ HandlerIdle /\ FetcherIdle /\ UsersIdle /\ CollectorIdle
InitHandler ==
  LimiterIdle /\ RetryIdle /\ CacheIdle /\ TeamIdle /\ StateIdle /\ ClassifierIdle /\
  NamesIdle /\ PagesIdle /\ HandlerInit /\ FetcherIdle /\ UsersIdle /\ CollectorIdle
InitFetcher ==
  LimiterIdle /\ RetryIdle /\ CacheIdle /\ TeamIdle /\ StateIdle /\ ClassifierIdle /\
  NamesIdle /\ PagesIdle /\ HandlerIdle /\ FetcherInit /\ UsersIdle /\ CollectorIdle
InitUsers ==
  LimiterIdle /\ RetryIdle /\ CacheIdle /\ TeamIdle /\ StateIdle /\ ClassifierIdle /\
  NamesIdle /\ PagesIdle /\ HandlerIdle /\ FetcherIdle /\ UsersInit /\ CollectorIdle
InitCollector ==
  LimiterIdle /\ RetryIdle /\ CacheIdle /\ TeamIdle /\ StateIdle /\ ClassifierIdle /\
  NamesIdle /\ PagesIdle /\ HandlerIdle /\ FetcherIdle /\ UsersIdle /\ CollectorInit

NextLimiter ==
  \/ \E t \in Tasks : RunEnter(t)
  \/ \E t \in Tasks : RunReturn(t)
  \/ \E t \in Tasks : RunThrow(t)

NextRetry ==
  \/ RequestSucceeds
  \/ \E resp \in Responses : RequestFails(resp)
  \/ SleepDone

NextCache ==
  \/ Tick
  \/ \E p \in Projects : startProjectSession(p)
  \/ \E r \in Resources, k \in Keys : GetWithCache(r, k)
  \/ \E n \in 1..MaxCalls : FetchResolves(n)
  \/ \E n \in 1..MaxCalls : FetchRejects(n)
  \/ \E r \in Resources, k \in Keys : CacheGet(r, k)
  \/ \E r \in Resources, k \in Keys : CacheSet(r, k)
  \/ clearActivityCaches
  \/ clearAllCaches

NextTeam ==
  \/ \E p \in Projects, ans \in MemberAnswers : GetProjectMembers(p, ans)
  \/ \E p \in Projects : \E ans \in WorkItemAnswers(p) : GetWorkItems(p, ans)
  \/ \E w \in WorkItems, act \in ActivityAnswers, com \in ListAnswers, sub \in ListAnswers :
       RunTask(w, act, com, sub)
  \/ TeamReturns

NextState ==
  \/ ClassifyState
  \/ CategorizeState
  \/ BucketState

NextClassifier ==
  \/ \E a \in ActivityInputs : ProcessActivity(a)
  \/ ReturnCategories

NextTies ==
  \/ \E a \in TieInputs : ProcessActivity(a)
  \/ ReturnCategories

NextNames ==
  CompareNames

NextPages ==
  \/ FetchProjectsPage
  \/ FetchWorkItemsPage
  \/ FetchLoopExit
  \/ FetchActivitiesPage
  \/ PageRequestThrows

NextHandler ==
  \/ HandleApplicationCommand
  \/ ValidateOptions
  \/ HandlerWork
  \/ SendFollowUp

NextFetcher ==
  \/ CallFetcher
  \/ \E status \in Statuses : RequestFn(status)
  \/ InnerSleepDone
  \/ OuterSleepDone

NextUsers ==
  \/ \E c \in Lookups, userId \in UserIds : FetchUserName(c, userId)
  \/ \E c \in Lookups, ok \in BOOLEAN : MembersAnswered(c, ok)

NextCollector ==
  \/ CollectRecord
  \/ CollectEnd

SpecLimiter == InitLimiter /\ [][NextLimiter]_vars
NextLimiterFair ==
  \/ \E t \in Tasks : RunEnterInOrder(t)
  \/ \E t \in Tasks : RunReturn(t)
  \/ \E t \in Tasks : RunThrow(t)

\* The limiter under the scheduling the claim of liveness assumes: a resolved
\* waiter resumes (its continuation is a queued microtask), and a running
\* task terminates, by returning or by throwing.
\* The tasks being interchangeable, they call run in the order of their
\* numbers.
SpecLimiterFair ==
  /\ InitLimiter
  /\ [][NextLimiterFair]_vars
  /\ \A t \in Tasks : WF_vars(lpc[t] = "woken" /\ RunEnter(t))
  /\ \A t \in Tasks : WF_vars(RunReturn(t) \/ RunThrow(t))
SpecRetry == InitRetry /\ [][NextRetry]_vars
SpecCache == InitCache /\ [][NextCache]_vars
SpecTeam == InitTeam /\ [][NextTeam]_vars
SpecState == InitState /\ [][NextState]_vars
SpecClassifier == InitClassifier /\ [][NextClassifier]_vars
SpecTies == InitTies /\ [][NextTies]_vars
SpecNames == InitNames /\ [][NextNames]_vars
SpecPages == InitPages /\ [][NextPages]_vars
SpecHandler == InitHandler /\ [][NextHandler]_vars
SpecFetcher == InitFetcher /\ [][NextFetcher]_vars
SpecUsers == InitUsers /\ [][NextUsers]_vars
SpecCollector == InitCollector /\ [][NextCollector]_vars

\* ========================================================================
\* Properties of the caches
\* ========================================================================

\* the step is a call of the accessor of resource r for key k
AccessorCall(r, k) ==
  /\ callsMade' = callsMade + 1
  /\ lastCall'.op = "getWithCache"
  /\ lastCall'.res = r
  /\ lastCall'.key = k

\* the step is a read of key k of cache r: an accessor call or get(k)
ReadCall(r, k) ==
  /\ callsMade' = callsMade + 1
  /\ lastCall'.op \in {"getWithCache", "get"}
  /\ lastCall'.res = r
  /\ lastCall'.key = k

\* the request promises in flight for the pair <<r, k>>
InFlightFor(r, k) == {n \in DOMAIN inflight : inflight[n].res = r /\ inflight[n].key = k}

C2_SessionIsolation ==
  [][\A r \in Resources, k \in Keys :
       (/\ AccessorCall(r, k)
        /\ cImpl = "direct"
        /\ k \in DOMAIN cache[r]
        /\ now - cache[r][k].timestamp < Ttl(cImpl, r)) =>
          /\ (cache[r][k].epoch = sessionsStarted /\ sessionsStarted >= 1) =>
                (lastCall'.via = "hit" /\ lastCall'.data = cache[r][k].data)
          /\ cache[r][k].epoch < sessionsStarted => lastCall'.via # "hit"]_vars

\* C3: a call made in run B is never answered with a value whose fetch was
\* issued in an earlier run A, from the cache or from a pending request.
C3_NoCrossRun ==
  (lastCall.op = "getWithCache" /\ lastCall.via \in {"hit", "join"}) =>
     ~(lastCall.data.session >= 1 /\ lastCall.data.session < lastCall.session)

SessionHeld(r, k) ==
  cImpl = "direct" => (currentSessionId # NoSession /\ cache[r][k].sessionId = currentSessionId)

\* C5: a read less than the TTL after the write is a hit; a read more than
\* the TTL after the write is a miss that removes the entry.
C5_TtlExpiry ==
  [][\A r \in Resources, k \in Keys :
       (ReadCall(r, k) /\ k \in DOMAIN cache[r] /\ SessionHeld(r, k)) =>
          /\ now - cache[r][k].timestamp < Ttl(cImpl, r) =>
                (lastCall'.via = "hit" /\ lastCall'.data = cache[r][k].data)
          /\ now - cache[r][k].timestamp > Ttl(cImpl, r) =>
                (lastCall'.via # "hit" /\ k \notin DOMAIN cache'[r])]_vars

\* C6: every startProjectSession call changes the current token.
C6_FreshToken ==
  [][sessionsStarted' = sessionsStarted + 1 => currentSessionId' # currentSessionId]_vars

\* ========================================================================
\* Properties of apiRequestWithRetry
\* ========================================================================

\* C7: a first answer that is an error other than 429 ends the call at once:
\* requestFn has been invoked exactly once, that error is thrown and nothing
\* was slept; after the answers 429, 429 the function is still going to call
\* requestFn, and after 429, 429, 200 it has returned the result of the third
\* invocation.
C7_RetryOnlyOn429 ==
  /\ (calls >= 1 /\ answers[1] \notin {200, 429}) =>
        /\ calls = 1
        /\ rPc = "done"
        /\ rResult = [kind |-> "threw", id |-> 1, status |-> answers[1]]
        /\ sleeps = <<>>
  /\ (answers = <<429, 429>>) => rPc \in {"sleep", "call"}
  /\ (answers = <<429, 429, 200>>) =>
        /\ rPc = "done"
        /\ rResult = [kind |-> "returned", id |-> 3, status |-> 200]

C7_Witness ==
  /\ answers = <<429, 429, 200>>
  /\ rResult.kind = "returned"
  /\ Len(sleeps) = 2

\* C8: requestFn is never invoked more than 3 times; when every answer was
\* 429 the function does not stop before the third invocation, it stops after
\* it, and it throws the error of that third invocation.
C8_BoundedRetry ==
  /\ calls <= 3
  /\ (\A i \in 1..calls : answers[i] = 429) =>
        /\ (rPc = "done" => calls = 3)
        /\ (rPc = "done" => rResult = [kind |-> "threw", id |-> 3, status |-> 429])
        /\ (rPc # "done" => ENABLED (RequestSucceeds \/ (\E resp \in Responses : RequestFails(resp)) \/ SleepDone))

C8_Witness ==
  /\ answers = <<429, 429, 429>>
  /\ rPc = "done"
  /\ rResult.kind = "threw"

\* C9 as stated: while sleeping before the next attempt, the delay is exactly
\* s * 1000 ms when the 429 carried retry-after s, and initialDelay * 2^n
\* when it carried none (n the zero-based number of the failed attempt).
C9_DelayVerbatim ==
  rPc = "sleep" =>
    IF lastError.secs # NoHint
      THEN delayMs = lastError.secs * 1000
      ELSE delayMs = INITIAL_RETRY_DELAY_MS(rImpl) * Pow2(attempt)

\* C9 amended: the delay is never shorter than the hint; it is exactly
\* s * 1000 ms in the modular copy, and in planeApiDirect.js whenever
\* s * 1000 >= 3000 + 2000 * n (shorter hints are raised to that floor);
\* without a hint it is initialDelay * 2^n.
C9_DelayAtLeastHint ==
  rPc = "sleep" =>
    IF lastError.secs # NoHint
      THEN /\ delayMs >= lastError.secs * 1000
           /\ (rImpl = "modular" => delayMs = lastError.secs * 1000)
           /\ (lastError.secs * 1000 >= 3000 + 2000 * attempt => delayMs = lastError.secs * 1000)
           /\ (lastError.secs * 1000 < 3000 + 2000 * attempt /\ rImpl = "direct"
                 => delayMs = 3000 + 2000 * attempt)
      ELSE delayMs = INITIAL_RETRY_DELAY_MS(rImpl) * Pow2(attempt)

C9_Witness ==
  /\ rPc = "sleep"
  /\ rImpl = "direct"
  /\ attempt = 1
  /\ lastError.secs = 11
  /\ delayMs = 11000

\* ========================================================================
\* Properties of ConcurrencyLimiter
\* ========================================================================

\* C10: the number of tasks executing inside run() never exceeds
\* maxConcurrent, and the running counter is that number.
C10_SemaphoreBound ==
  /\ Cardinality({t \in Tasks : lpc[t] = "running"}) <= maxConcurrent
  /\ running = Cardinality({t \in Tasks : lpc[t] = "running"})

\* a resolved waiter resumes while a later caller has taken the freed slot
C10_Witness ==
  /\ running = maxConcurrent
  /\ \E t \in Tasks : lpc[t] = "woken"

\* position of task t in the order of arrival
ArrivalIndex(t) == CHOOSE i \in 1..Len(arrivals) : arrivals[i] = t

\* the tasks that have acquired a slot
Admitted == {t \in Tasks : lpc[t] \in {"running", "returned", "threw"}}

\* C11: waiting callers are admitted in arrival order: no task has acquired
\* a slot while a task that called run earlier is still waiting for one.
C11_Fifo ==
  \A t \in Tasks : \A u \in Admitted :
    lpc[t] \in {"waiting", "woken"} => ArrivalIndex(u) < ArrivalIndex(t)

\* the tasks that called run and have settled
Settled == {t \in Tasks : lpc[t] \in {"returned", "threw"}}

\* C36: every task that has called run eventually executes and settles,
\* whether the tasks before it return or throw; and whenever every task
\* that called run has settled, running is 0 and the queue is empty.
C36_SemaphoreLiveness ==
  /\ \A t \in Tasks : (lpc[t] # "idle") ~> (t \in Settled)
  /\ []((\A t \in Tasks : lpc[t] = "idle" \/ t \in Settled) =>
         (running = 0 /\ queue = <<>>))

\* a task has thrown while another one waits in the queue with every slot
\* taken
C36_Witness ==
  /\ \E t \in Tasks : lpc[t] = "threw"
  /\ queue # <<>>
  /\ running = maxConcurrent

\* ========================================================================
\* Properties of the settling of fetches and of clear()
\* ========================================================================

\* the step settles fetch n
Settles(n) == n \in DOMAIN inflight /\ n \notin DOMAIN inflight'

\* the step settles fetch n of pair <<r, k>> by failure
Rejected(n, r, k) ==
  /\ Settles(n)
  /\ inflight[n].res = r /\ inflight[n].key = k
  /\ <<r, k>> \in DOMAIN failed' /\ failed'[<<r, k>>] = n

\* C12 as stated: a settling fetch removes the tracker of its key; after a
\* failure there is no cache entry for the key, and the next accessor call
\* for the key invokes the fetch function again.  (The waiters hold the
\* promise of the fetch and so all receive its one outcome.)
C12_SettleRemovesTracker ==
  [][/\ \A n \in DOMAIN inflight : Settles(n) =>
          <<inflight[n].res, inflight[n].key>> \notin DOMAIN pendingRequests'
     /\ \A n \in DOMAIN inflight : \A r \in Resources, k \in Keys :
          Rejected(n, r, k) => k \notin DOMAIN cache'[r]
     /\ \A r \in Resources, k \in Keys :
          (AccessorCall(r, k) /\ <<r, k>> \in DOMAIN failed) =>
             (lastCall'.via = "fetch" /\ fetchCount' = fetchCount + 1)]_vars

\* C12 amended: a settling fetch removes the tracker of its key; a failure
\* leaves the cache as it was, and the next accessor call for the key, unless
\* it finds a valid entry, invokes the fetch function again (it never joins).
C12_SettleRemovesTrackerRetry ==
  [][/\ \A n \in DOMAIN inflight : Settles(n) =>
          <<inflight[n].res, inflight[n].key>> \notin DOMAIN pendingRequests'
     /\ \A n \in DOMAIN inflight : \A r \in Resources, k \in Keys :
          Rejected(n, r, k) => cache' = cache
     /\ \A r \in Resources, k \in Keys :
          (AccessorCall(r, k) /\ <<r, k>> \in DOMAIN failed /\ lastCall'.via # "hit") =>
             (lastCall'.via = "fetch" /\ fetchCount' = fetchCount + 1)]_vars

\* a fetch that a second caller had joined has failed; its tracker is gone
C12_Witness ==
  \E pk \in DOMAIN failed :
    /\ pk \notin DOMAIN pendingRequests
    /\ lastCall.via = "join"
    /\ lastCall.promise = failed[pk]
    /\ callsMade < MaxCalls

\* the step is a clear: none of the other actions leaves the calls, the
\* fetches in flight, the clock and the session alone
ClearStep ==
  /\ callsMade' = callsMade
  /\ inflight' = inflight
  /\ now' = now
  /\ sessionsStarted' = sessionsStarted
  /\ cacheVars' # cacheVars

\* C13: clear() leaves its cache without entries and without trackers, and
\* the result of a fetch that was in flight when its tracker was cleared is
\* not written into the cache when it arrives.
C13_ClearDiscardsResult ==
  [][/\ ClearStep =>
          /\ cache'["activities"] = EmptyMap
          /\ \A pk \in DOMAIN pendingRequests' : pk[1] # "activities"
     /\ \A n \in clearedFetches : Settles(n) =>
          LET r == inflight[n].res
              k == inflight[n].key
          IN ~(k \in DOMAIN cache'[r] /\ cache'[r][k].data.id = n)]_vars

\* ========================================================================
\* Properties of getTeamActivities
\* ========================================================================

\* the records of the output that reference work item w
RecordsOf(w) ==
  {i \in 1..Len(activities[w]) :
     activities[w][i].workItem = w \/ activities[w][i].parentWorkItem = w}

SnapshotsOf(w) ==
  {i \in 1..Len(activities[w]) :
     activities[w][i].type = "work_item_snapshot" /\ activities[w][i].workItem = w}

\* no actorFilter is set, or it matches one of the assignees of w
ActorAssigned(w) ==
  actorFilter = NoFilter \/ \E a \in assignees[w] : namesMatch(a, actorFilter)

\* w passed the pre-filter and getTeamActivities has returned its output
InOutput(w) == runResult.kind = "ok" /\ taskStage[w] = "done"

\* C14: a work item that passed the pre-filter and has no record inside the
\* window yields exactly one snapshot when no actorFilter is set or the
\* filter matches an assignee, and no record at all otherwise.
C14_SnapshotFallback ==
  \A w \in WorkItems :
    (InOutput(w) /\ quiet[w]) =>
       IF ActorAssigned(w)
         THEN Cardinality(SnapshotsOf(w)) = 1 /\ Len(activities[w]) = 1
         ELSE activities[w] = <<>>

\* a quiet work item whose assignee "A." matches the filter "a", and one
\* whose assignees do not match it
C14_Witness ==
  /\ actorFilter = NameA
  /\ InOutput("w1") /\ quiet["w1"] /\ assignees["w1"] = {NameADot}
  /\ Cardinality(SnapshotsOf("w1")) = 1
  /\ InOutput("w2") /\ quiet["w2"] /\ assignees["w2"] = {NameB}
  /\ activities["w2"] = <<>>

\* C28: a snapshot is in the output for a work item only when the run
\* produced no activity record, no comment record and no subitem record for
\* it, and at most one snapshot per work item.
C28_SnapshotOnlyWhenQuiet ==
  \A w \in WorkItems :
    /\ Cardinality(SnapshotsOf(w)) <= 1
    /\ SnapshotsOf(w) # {} => RecordsOf(w) = SnapshotsOf(w)

\* C30: a per-item fetch is issued for a work item only if the listing showed
\* it created or updated inside the window (bounds included) and tied to a
\* member of the project as assignee, creator or updater.
C30_PreFilter ==
  \A w \in WorkItems :
    fetchesIssued[w] => listed[w].seen /\ listed[w].inWindow /\ listed[w].linked

\* C15: every work item that passed the pre-filter and is assigned to the
\* filtered actor (or no filter is set) has at least one record in the
\* output, whatever other actors did inside the window.
C15_EveryItemAppears ==
  \A w \in WorkItems :
    (InOutput(w) /\ ActorAssigned(w)) => RecordsOf(w) # {}

\* C16: a failing per-item fetch does not end the run, leaves the records of
\* the other tasks alone, and the work item whose fetch failed has a
\* snapshot in the output (subject to the actor filter).
C16_PerItemDegradation ==
  /\ [][\A w \in WorkItems :
          (fetchFailed'[w] /\ ~fetchFailed[w]) =>
             /\ runResult' = runResult
             /\ \A v \in WorkItems \ {w} :
                  activities'[v] = activities[v] /\ taskStage'[v] = taskStage[v]]_vars
  /\ [](\A w \in WorkItems :
          (InOutput(w) /\ fetchFailed[w] /\ ActorAssigned(w)) => SnapshotsOf(w) # {})

\* C17: a project whose members or work items listing answered 403 has no
\* record and no per-item fetch, and does not stop the other project or the
\* run; any other project-level error makes the run fail with that error.
C17_AccessDeniedLocal ==
  /\ \A p \in Projects : pStage[p] = "denied" =>
       /\ \A w \in WorkItems : ProjectOf(w) = p =>
            (activities[w] = <<>> /\ ~fetchesIssued[w])
       /\ \A q \in Projects \ {p} : pStage[q] = "start" =>
            ENABLED (\/ \E ans \in MemberAnswers : GetProjectMembers(q, ans)
                     \/ \E ans \in WorkItemAnswers(q) : GetWorkItems(q, ans))
  /\ (/\ runResult = Pending
      /\ \A p \in Projects : pStage[p] \in {"listed", "skipped", "denied"}
      /\ \A w \in WorkItems : taskStage[w] # "ready") => ENABLED TeamReturns
  /\ (\E p \in Projects : pStage[p] = "failed") <=> runResult.kind = "failed"
  /\ runResult.kind = "failed" => runResult.status \in ProjectErrors \ {403}

\* project p1 was denied, the work item of p2 was processed and the run
\* returned
C17_Witness ==
  /\ pStage["p1"] = "denied"
  /\ InOutput("w2")
  /\ activities["w2"] # <<>>

\* ========================================================================
\* Properties of the state classification
\* ========================================================================
InReview == <<"I", "n", " ", "R", "e", "v", "i", "e", "w">>
Closed == <<"C", "l", "o", "s", "e", "d">>
Triage == <<"T", "r", "i", "a", "g", "e">>

\* the state name contains none of the keywords, whatever the case
ContainsNone(keywords) ==
  \A kw \in keywords : ~includes(toLowerCaseStr(sState), kw)

AllPatterns ==
  STATE_PATTERNS("completed") \cup STATE_PATTERNS("blocked") \cup
  STATE_PATTERNS("inProgress") \cup STATE_PATTERNS("backlog")

\* C20: the bucket depends only on the state name without its case; "In
\* Review" is inProgress, "Closed" is completed, and a name without any
\* keyword ("Triage", the empty name) is backlog.
C20_StateClassification ==
  /\ sClass # "none" =>
       /\ sClass = classifyWorkItemState(toLowerCaseStr(sState))
       /\ sState = InReview => sClass = "inProgress"
       /\ sState = Closed => sClass = "completed"
       /\ sState \in {Triage, <<>>} => sClass = "backlog"
       /\ ContainsNone({<<"d", "o", "n", "e">>, <<"c", "o", "m", "p", "l", "e", "t", "e">>, <<"c", "l", "o", "s", "e", "d">>, <<"b", "l", "o", "c", "k">>, <<"p", "r", "o", "g", "r", "e", "s", "s">>,
                        <<"r", "e", "v", "i", "e", "w">>, <<"a", "c", "t", "i", "v", "e">>}) => sClass = "backlog"
  /\ sCategory # "none" =>
       /\ sCategory = categorizeWorkItems(toLowerCaseStr(sState))
       /\ sState = InReview => sCategory = "inProgress"
       /\ sState = Closed => sCategory = "completed"
       /\ sState \in {Triage, <<>>} => sCategory = "backlog"
       /\ ContainsNone(AllPatterns) => sCategory = "backlog"

\* "In Review" has been classified by both functions
C20_Witness ==
  /\ sState = InReview
  /\ sClass = "inProgress"
  /\ sCategory = "inProgress"

\* ========================================================================
\* Properties of the activity classifier
\* ========================================================================
\* the state a record carries: the new value of a state change, else its state
Carried(a) ==
  IF a.type = "activity" /\ a.field \in {"state", "status"} THEN a.newValue ELSE a.state

\* the lists of the result that hold the work item
ListsOf(w) ==
  {l \in {"completed", "inProgress", "todo", "blockers"} :
     find(CASE l = "completed" -> completed [] l = "inProgress" -> inProgress
            [] l = "todo" -> todo [] OTHER -> blockers, w)}

\* the list the classifier chooses for a state
ListFor(impl, state) ==
  IF impl = "personDailySummary"
    THEN IF stateUtilsMatches(state, "completed") THEN "completed"
         ELSE IF stateUtilsMatches(state, "blocked") THEN "blockers" ELSE "inProgress"
    ELSE IF stateUtilsMatches(state, "completed") THEN "completed"
         ELSE IF stateUtilsMatches(state, "inProgress") THEN "inProgress" ELSE "todo"

\* a record every copy of the classifier may drop: an assignment change, or
\* a comment without text
Droppable(a) ==
  \/ a.field \in {"assignees", "assignee"}
  \/ a.type = "comment" /\ ~trimHasText(a.comment)

\* C18: when the classifier returns, each work item of the input is in the
\* list of the state carried by its record with the greatest timestamp,
\* whatever the variant of that record and the order of the input (stated
\* here for the work items whose newest record is not a droppable one).
C18_LatestWins ==
  returned =>
    \A w \in DOMAIN newest :
      ~Droppable(newest[w]) => ListsOf(w) = {ListFor(aImpl, Carried(newest[w]))}

\* how often the id occurs in a list
Occurrences(list, w) == Cardinality({i \in 1..Len(list) : list[i] = w})

\* C19: when processActivities returns, every work item of the input is in
\* exactly one of completed, inProgress and todo, and in it only once.
C19_BucketExclusivity ==
  (returned /\ aImpl \in {"part_006", "part_008"}) =>
    \A w \in DOMAIN newest :
      Occurrences(completed, w) + Occurrences(inProgress, w) + Occurrences(todo, w) = 1

\* the part of C19 that forbids duplicates only
C19_NoDuplicate ==
  (returned /\ aImpl \in {"part_006", "part_008"}) =>
    \A w \in WorkItems :
      Occurrences(completed, w) + Occurrences(inProgress, w) + Occurrences(todo, w) <= 1

\* ========================================================================
\* Properties of the caches within a reporting run
\* ========================================================================

\* the step stores the result of fetch n
Resolves(n) ==
  /\ Settles(n)
  /\ inflight[n].key \in DOMAIN cache'[inflight[n].res]
  /\ cache'[inflight[n].res][inflight[n].key].data = inflight[n].data
  /\ inflight[n].key \in DOMAIN cache[inflight[n].res] =>
       cache[inflight[n].res][inflight[n].key].data # inflight[n].data

\* C24: in a reporting run on one project, an accessor call for the
\* activities of a work item whose activities this run has already stored
\* (the entry was not cleared and is younger than the TTL) does not go
\* upstream again.
C24_NoRefetchInRun ==
  [][\A k \in Keys :
       (/\ cImpl = "direct"
        /\ callsMade' = callsMade + 1
        /\ lastCall'.op = "getWithCache" /\ lastCall'.res = "activities" /\ lastCall'.key = k
        /\ k \in DOMAIN cache["activities"]
        /\ currentSessionId # NoSession
        /\ cache["activities"][k].sessionId # NoSession
        /\ cache["activities"][k].sessionId[1] = currentSessionId[1]
        /\ isCacheValid(cache["activities"][k].timestamp, now, ACTIVITIES_CACHE_TTL_MS))
       => lastCall'.via # "fetch"]_vars

IsSeparator(c) == c \in {".", "-", "_", " "}
Folded(name) == toLowerCaseStr(SelectSeq(name, LAMBDA c : ~IsSeparator(c)))
ShrutiDotDhasmana ==
  <<"s", "h", "r", "u", "t", "i", ".", "d", "h", "a", "s", "m", "a", "n", "a">>
ShrutiDhasmana ==
  <<"S", "h", "r", "u", "t", "i", " ", "D", "h", "a", "s", "m", "a", "n", "a">>
ShrutiD == <<"S", "h", "r", "u", "t", "i", " ", "D">>

\* C21 as stated: namesMatch(a, b) holds exactly when a and b are equal after
\* lower-casing and removing every '.', '-', '_' and blank.
C21_ExactlyWhenFoldedEqual ==
  nMatch # "none" => (nMatch = "match" <=> Folded(nName1) = Folded(nName2))

\* C21: for two non-empty names, namesMatch(a, b) holds exactly when a and b
\* are equal after lower-casing and removing every '.', '-', '_' and blank;
\* "shruti.dhasmana" matches "Shruti Dhasmana" and "Shruti D" does not match
\* "Shruti Dhasmana"; an empty name matches nothing, not even an empty name.
C21_FuzzyNameMatch ==
  nMatch # "none" =>
    /\ nName1 # <<>> /\ nName2 # <<>> =>
         (nMatch = "match" <=> Folded(nName1) = Folded(nName2))
    /\ nName1 = <<>> \/ nName2 = <<>> => nMatch = "differ"
    /\ nName1 = ShrutiDotDhasmana /\ nName2 = ShrutiDhasmana => nMatch = "match"
    /\ nName1 = ShrutiD /\ nName2 = ShrutiDhasmana => nMatch = "differ"
C21_Witness ==
  nName1 = ShrutiDotDhasmana /\ nName2 = ShrutiDhasmana /\ nMatch = "match"

\* ========================================================================
\* Properties of the paginated fetchers
\* ========================================================================
\* the safety cap on page requests of the fetcher that runs
RequestCap ==
  IF fetcher = "fetchProjects" /\ pgImpl = "direct"
  THEN MAX_PROJECT_ITERATIONS_DIRECT ELSE MAX_ITERATIONS

\* C22: against an upstream that returns a next cursor on every page,
\* fetchProjects and fetchWorkItems send at most the safety cap of page requests
\* and, unless a request itself fails, return normally with what every
\* requested page contributed.
C22_PaginationTerminates ==
  upstream.endless /\ fetcher \in {"fetchProjects", "fetchWorkItems"} =>
    /\ requests <= RequestCap
    /\ ~requestFailed => pgResult # "threw" /\ Len(gathered) = requests
    /\ requests = RequestCap /\ pgResult = "none" =>
         ~ENABLED (FetchProjectsPage /\ requests' > requests) /\ ~ENABLED FetchWorkItemsPage
C22_Witness ==
  /\ upstream.endless /\ fetcher = "fetchProjects" /\ pgImpl = "modular"
  /\ requests = MAX_ITERATIONS /\ pgResult = "returned" /\ ~requestFailed
  /\ Total(gathered) = 0

\* C29: when the upstream serves a list over k pages linked by next cursors,
\* k below the safety cap, a fetcher that returns has gathered all items of
\* all k pages (a page that was not requested contributes none of its items).
ItemsTaken(n) == IF n <= Len(gathered) THEN gathered[n] ELSE 0
C29_FollowsPagination ==
  pgResult = "returned" /\ ~requestFailed /\ ~upstream.endless =>
    \A n \in 1..Len(upstream.sizes) : ItemsTaken(n) = upstream.sizes[n]

\* ========================================================================
\* Properties of the summary command handlers
\* ========================================================================
\* C23: every invocation of a summary command handler, on every path, ends
\* with a message delivered to the user after the deferred acknowledgment.
C23_AlwaysResponds ==
  hPc = "done" => acked /\ delivered >= 1

\* ========================================================================
\* Properties of the category precedence
\* ========================================================================
HasKeyword(keywords) == \E kw \in keywords : includes(toLowerCaseStr(sState), kw)
\* the first matching category in the order completed, blocked, inProgress
Precedence(isCompleted, isBlocked, isInProgress) ==
  IF isCompleted THEN "completed" ELSE IF isBlocked THEN "blocked"
  ELSE IF isInProgress THEN "inProgress" ELSE "backlog"

\* C27 for the stand-alone classifiers: the first matching category in the
\* order completed, blocked, inProgress, backlog is the result.
C27_StandAlonePrecedence ==
  /\ sClass # "none" =>
       sClass = Precedence(HasKeyword({<<"d", "o", "n", "e">>,
                                       <<"c", "o", "m", "p", "l", "e", "t", "e">>,
                                       <<"c", "l", "o", "s", "e", "d">>}),
                           HasKeyword({<<"b", "l", "o", "c", "k">>}),
                           HasKeyword({<<"p", "r", "o", "g", "r", "e", "s", "s">>,
                                       <<"r", "e", "v", "i", "e", "w">>,
                                       <<"a", "c", "t", "i", "v", "e">>}))
  /\ sCategory # "none" =>
       sCategory = Precedence(HasKeyword(STATE_PATTERNS("completed")),
                              HasKeyword(STATE_PATTERNS("blocked")),
                              HasKeyword(STATE_PATTERNS("inProgress")))

\* C27: the first matching category in the order completed, blocked,
\* inProgress, backlog decides the bucket, in processActivities as in the
\* stand-alone classifiers; processActivities keeps blocked and backlog items
\* in its todo list, so a state with a blocked and an inProgress keyword (and
\* no completed one) must land in todo, never in inProgress.
C27_CategoryPrecedence ==
  /\ C27_StandAlonePrecedence
  /\ sBucket # "none" =>
       LET category == Precedence(HasKeyword(stateUtilsPatterns("completed")),
                                  HasKeyword(stateUtilsPatterns("blocked")),
                                  HasKeyword(stateUtilsPatterns("inProgress")))
       IN sBucket = IF category \in {"blocked", "backlog"} THEN "todo" ELSE category

\* C26: when two records of one work item carry the same timestamp, the one
\* processed last decides the state kept for the work item, from which its
\* displayed state is taken (stated for state changes that tie at the
\* greatest timestamp of the work item).
C26_TieLastWins ==
  \A i \in 1..Len(tied) :
    LET a == tied[i]
    IN newest[a.workItem] = a /\ a.field = "state" =>
         /\ wisHas(workItemStates, a.workItem)
         /\ wisGet(workItemStates, a.workItem).state = a.newValue

\* ========================================================================
\* Properties of clearActivityCaches and of the trackers
\* ========================================================================
\* the trackers of the caches other than the activity caches
OtherTrackers(pending) ==
  [pk \in {q \in DOMAIN pending : q[1] # "activities"} |-> pending[pk]]

\* C39: clearActivityCaches leaves the entries and the trackers of the other
\* caches (here: work items) as they are, so that a call for a work-items
\* fetch in flight still joins it.
C39_ClearActivityFrame ==
  [][clearActivityCaches =>
       /\ cache'["workItems"] = cache["workItems"]
       /\ OtherTrackers(pendingRequests') = OtherTrackers(pendingRequests)]_vars

\* C40: a settling fetch removes only its own tracker: the tracker of another
\* fetch, started for the same key after a clear, stays in place.
C40_OwnTrackerOnly ==
  [][\A n \in DOMAIN inflight : Settles(n) =>
       \A pk \in DOMAIN pendingRequests :
         pendingRequests[pk] # n =>
           pk \in DOMAIN pendingRequests' /\ pendingRequests'[pk] = pendingRequests[pk]]_vars

\* ========================================================================
\* Properties of the resource fetchers
\* ========================================================================
\* the upstream answered every request so far with 429
AlwaysRateLimited == \A i \in 1..Len(upstreamAnswers) : upstreamAnswers[i] = 429

\* C35: when the upstream answers every request with 429, one page request
\* of a fetcher reaches the upstream at most MAX_RETRIES (3) times.
C35_RetryCapEndToEnd == AlwaysRateLimited => Len(upstreamAnswers) <= MAX_RETRIES

\* C34: a fetcher called before initPlaneService fails with the
\* not-initialized error: it sends nothing upstream, nothing is written to
\* the cache, and it answers neither an empty list nor any other value.
C34_NotInitializedFailsFast ==
  PLANE_API = "null" =>
    /\ upstreamAnswers = <<>>
    /\ stored = "nothing"
    /\ fPc = "done" => fResult.kind = "notInitialized"

\* C32: an entry is written only after a successful upstream response: a
\* call whose last upstream answer was a failure has stored nothing.
C32_WriteOnlyOnSuccess ==
  (fPc = "done" /\ upstreamAnswers # <<>> /\ upstreamAnswers[Len(upstreamAnswers)] # 200)
    => stored = "nothing"

\* ========================================================================
\* Properties of fetchUserName
\* ========================================================================
\* C33: resolving any number of ids within one session sends at most one
\* members-list request upstream, and an id that is not in the members list
\* is answered by the id itself.
C33_BulkPreloadOnce ==
  /\ memberRequests <= 1
  /\ \A c \in Lookups : (uPc[c] = "done" /\ uId[c] \notin Members) => uName[c] = uId[c]

\* ========================================================================
\* Properties of the record loops
\* ========================================================================
InWindow(rec) == rec.time >= Window.startDate /\ rec.time <= Window.endDate
Matches(rec) == colFilter = NoFilter \/ Folded(rec.actor) = Folded(colFilter)
PushedSet == {pushed[i] : i \in 1..Len(pushed)}

\* C31: every activity and comment record pushed has its timestamp inside
\* [startDate, endDate], bounds included, and, under an actor filter, an
\* actor whose name matches the filter; under an actor filter every subitem
\* record pushed has an assignee whose name matches it.
C31_OutputFiltering ==
  \A j \in PushedSet :
    /\ colType # "subitem" => InWindow(upstreamList[j])
    /\ Matches(upstreamList[j])

\* the loop has dropped a record outside the window, dropped a record of
\* another actor, and pushed records of both ends of the window
C31_Witness ==
  /\ colDone
  /\ colType = "comment"
  /\ colFilter # NoFilter
  /\ pushed # <<>>
  /\ \E j \in 1..Len(upstreamList) : j \notin PushedSet /\ ~InWindow(upstreamList[j])
  /\ upstreamList[pushed[1]].time = Window.endDate

\* C37: every activity and comment the upstream returned inside the window,
\* by a matching actor, has been pushed when the loop is over, however many
\* records the list holds and wherever the record stands in it.
C37_Complete ==
  (colDone /\ colType # "subitem") =>
    \A j \in 1..Len(upstreamList) :
      (InWindow(upstreamList[j]) /\ Matches(upstreamList[j])) => j \in PushedSet

\* ========================================================================
\* Grouping in memory against fetching per member
\* ========================================================================
\* filterActivitiesForMember(allActivities, memberName); the assignees of a
\* snapshot are those of its task, the assignees of a subitem record those
\* the upstream listed for the subitem
filterActivitiesForMember(allActivities, memberName, taskAssignees, subitemAssignees) ==
  SelectSeq(allActivities, LAMBDA r :
    IF r.type \in {"activity", "comment"} THEN namesMatch(r.actor, memberName)
    ELSE IF r.type = "work_item_snapshot"
      THEN \E a \in taskAssignees : namesMatch(a, memberName)
      ELSE \E a \in subitemAssignees : namesMatch(a, memberName))

\* C38: the records a task pushes in a run without actor filter, filtered
\* for a member by filterActivitiesForMember, are the records the task pushes
\* in a run with that member as actor filter, the upstream answering the
\* same.
C38_GroupingEquivalent ==
  [][\A w \in WorkItems, act \in ActivityAnswers, com \in ListAnswers, sub \in ListAnswers :
       (actorFilter = NoFilter /\ RunTask(w, act, com, sub)) =>
         filterActivitiesForMember(activities'[w], NameA, assignees[w], {sub.actor}) =
           TaskRecords(tImpl, NameA, w, assignees[w], act, com, sub)]_vars
====
